---- MODULE Spec2Model ----
(***************************************************************************)
(* The chain execution adapter (crates/foundry_adapter), the SendRequest   *)
(* builder (crates/domain) and the request mappings that feed it.          *)
(*                                                                         *)
(* Strings are sequences of one-character strings, so that formatting,     *)
(* parsing and case normalisation are computed, not assumed.  The single   *)
(* character U+2026 (horizontal ellipsis) is written "ELLIPSIS".           *)
(* Option<T> is a sequence: None is << >> and Some(v) is <<v>>.            *)
(***************************************************************************)
EXTENDS Integers, Sequences, FiniteSets, Bags, TLC

None == << >>

Some(v) == <<v>>

(***************************************************************************)
(* Program constants (crates/foundry_adapter/src/constants.rs).            *)
(***************************************************************************)
ANVIL_ACCOUNT_0 ==
  <<"0","x","f","3","9","f","d","6","e","5","1","a","a","d","8","8","f","6","f","4","c","e","6","a","b","8","8","2","7","2","7","9","c","f","f","f","b","9","2","2","6","6">>

ANVIL_ACCOUNT_1 ==
  <<"0","x","7","0","9","9","7","9","7","0","c","5","1","8","1","2","d","c","3","a","0","1","0","c","7","d","0","1","b","5","0","e","0","d","1","7","d","c","7","9","c","8">>

ANVIL_ACCOUNT_2 ==
  <<"0","x","3","c","4","4","c","d","d","d","b","6","a","9","0","0","f","a","2","b","5","8","5","d","d","2","9","9","e","0","3","d","1","2","f","a","4","2","9","3","b","c">>

ANVIL_ACCOUNT_3 ==
  <<"0","x","9","0","f","7","9","b","f","6","e","b","2","c","4","f","8","7","0","3","6","5","e","7","8","5","9","8","2","e","1","f","1","0","1","e","9","3","b","9","0","6">>

ANVIL_ACCOUNT_4 ==
  <<"0","x","1","5","d","3","4","a","a","f","5","4","2","6","7","d","b","7","d","7","c","3","6","7","8","3","9","a","a","f","7","1","a","0","0","a","2","c","6","a","6","5">>

USDC_MAINNET ==
  <<"0","x","A","0","b","8","6","9","9","1","c","6","2","1","8","b","3","6","c","1","d","1","9","D","4","a","2","e","9","E","b","0","c","E","3","6","0","6","e","B","4","8">>

DEFAULT_GAS_CAP == 30000000

(***************************************************************************)
(* Characters and the string conversions the adapter relies on.            *)
(***************************************************************************)
DecDigits == {"0","1","2","3","4","5","6","7","8","9"}

HexLowerLetters == {"a","b","c","d","e","f"}

HexUpperLetters == {"A","B","C","D","E","F"}

HexDigits == DecDigits \cup HexLowerLetters \cup HexUpperLetters

\* char::to_lowercase on the characters that occur in the model's strings.
LowerChar(c) ==
  CASE c = "A" -> "a" [] c = "B" -> "b" [] c = "C" -> "c" [] c = "D" -> "d"
    [] c = "E" -> "e" [] c = "F" -> "f" [] c = "X" -> "x"
    [] OTHER -> c

\* The upper-case spelling of a hex address: the "0x" prefix is kept, every
\* hex letter after it is upper-cased.  Used to enumerate inputs only.
UpperChar(c) ==
  CASE c = "a" -> "A" [] c = "b" -> "B" [] c = "c" -> "C" [] c = "d" -> "D"
    [] c = "e" -> "E" [] c = "f" -> "F"
    [] OTHER -> c

UpperHex(s) == [i \in 1..Len(s) |-> IF i <= 2 THEN s[i] ELSE UpperChar(s[i])]

\* validation::normalize: address.to_lowercase()
normalize(address) == [i \in 1..Len(address) |-> LowerChar(address[i])]

\* Result<T, E>
Ok(v) == [ok |-> TRUE, v |-> v]

Err(e) == [ok |-> FALSE, e |-> e]

\* EthAddress::from_str (H160): an optional "0x" prefix, then exactly 40 hex
\* digits in either case.  The value is the 20 bytes, written here as 40
\* lower-case nibbles.
StripPrefix0x(s) ==
  IF Len(s) >= 2 /\ s[1] = "0" /\ s[2] = "x" THEN SubSeq(s, 3, Len(s)) ELSE s

EthAddress_from_str(s) ==
  LET h == StripPrefix0x(s) IN
    IF Len(h) = 40 /\ \A i \in 1..40 : h[i] \in HexDigits
      THEN Ok([i \in 1..40 |-> LowerChar(h[i])])
      ELSE Err("FromHexError")

\* H160's Display (what to_string() calls): "0x", the first two bytes, the
\* ellipsis character, the last two bytes.
EthAddress_to_string(a) ==
  <<"0","x">> \o SubSeq(a, 1, 4) \o <<"ELLIPSIS">> \o SubSeq(a, 37, 40)

\* H160's / H256's LowerHex with a literal "0x" in front: format!("0x{:x}", h)
FormatLowerHex(h) == <<"0","x">> \o h

\* U256's Display (to_string): the number in decimal, no leading zeros.
DigitChars == <<"0","1","2","3","4","5","6","7","8","9">>

RECURSIVE U256_to_string(_)
U256_to_string(n) ==
  IF n < 10 THEN <<DigitChars[n + 1]>>
  ELSE U256_to_string(n \div 10) \o <<DigitChars[(n % 10) + 1]>>

\* ethers_core::utils::parse_ether: a decimal string in whole ether to wei.
\* The first '.' is removed, the rest must be decimal digits, and the number is
\* scaled by 10^(18 - number of decimals) (decimals beyond 18 are cut).  Wei is
\* kept as its decimal digit string without leading zeros.
IndexOfDot(s) ==
  IF \E i \in 1..Len(s) : s[i] = "."
    THEN CHOOSE i \in 1..Len(s) : s[i] = "." /\ \A j \in 1..(i - 1) : s[j] # "."
    ELSE 0

Zeros(n) == [i \in 1..n |-> "0"]

RECURSIVE StripLeadingZeros(_)
StripLeadingZeros(d) ==
  IF Len(d) > 1 /\ d[1] = "0" THEN StripLeadingZeros(Tail(d)) ELSE d

ETHER_DECIMALS == 18

parse_ether(s) ==
  LET di      == IndexOfDot(s)
      digits  == IF di = 0 THEN s ELSE SubSeq(s, 1, di - 1) \o SubSeq(s, di + 1, Len(s))
      dec_len == IF di = 0 THEN 0 ELSE Len(s) - di
      kept    == IF dec_len > ETHER_DECIMALS
                   THEN SubSeq(digits, 1, Len(digits) - (dec_len - ETHER_DECIMALS))
                   ELSE digits \o Zeros(ETHER_DECIMALS - dec_len)
  IN IF Len(digits) > 0 /\ \A i \in 1..Len(digits) : digits[i] \in DecDigits
       THEN Ok(StripLeadingZeros(kept))
       ELSE Err("ConversionError")

(***************************************************************************)
(* crates/domain: SendRequest and its builder.                             *)
(***************************************************************************)
\* SendRequestBuilder::default()
SendRequestBuilder_default ==
  [from |-> None, to |-> None, amount_eth |-> None, simulate |-> None,
   fork_block |-> None]

Builder_from(b, a) == [b EXCEPT !.from = Some(a)]

Builder_to(b, a) == [b EXCEPT !.to = Some(a)]

Builder_amount_eth(b, s) == [b EXCEPT !.amount_eth = Some(s)]

Builder_simulate(b, v) == [b EXCEPT !.simulate = Some(v)]

\* Mutant of Builder_fork_block: the pin is set on a fresh builder.
Builder_fork_block_fresh(b, o) == [SendRequestBuilder_default EXCEPT !.fork_block = o]

Builder_fork_block(b, o) == [b EXCEPT !.fork_block = o]

\* Option::unwrap_or
unwrap_or(o, d) == IF o = None THEN d ELSE o[1]

\* Mutant of Builder_build: an unset simulate flag defaults to broadcasting.
Builder_build_default_broadcast(b) ==
  IF b.from = None THEN Err("from required")
  ELSE IF b.to = None THEN Err("to required")
  ELSE IF b.amount_eth = None THEN Err("amount_eth required")
  ELSE Ok([from |-> b.from[1], to |-> b.to[1], amount_eth |-> b.amount_eth[1],
           simulate |-> unwrap_or(b.simulate, FALSE),
           fork_block |-> b.fork_block])

\* SendRequestBuilder::build
Builder_build(b) ==
  IF b.from = None THEN Err("from required")
  ELSE IF b.to = None THEN Err("to required")
  ELSE IF b.amount_eth = None THEN Err("amount_eth required")
  ELSE Ok([from |-> b.from[1], to |-> b.to[1], amount_eth |-> b.amount_eth[1],
           simulate |-> unwrap_or(b.simulate, TRUE),
           fork_block |-> b.fork_block])

\* TryFrom<SendIn> for SendRequest
SendIn_try_into(in) ==
  LET b0 == Builder_amount_eth(
              Builder_to(Builder_from(SendRequestBuilder_default, in.from), in.to),
              in.amount_eth)
      b1 == IF in.simulate # None THEN Builder_simulate(b0, in.simulate[1]) ELSE b0
  IN Builder_build(Builder_fork_block(b1, in.fork_block))

(***************************************************************************)
(* crates/baml_client: the mappings from untyped JSON to a SendRequest.    *)
(* A JSON value is absent, null, a string or a boolean.                    *)
(***************************************************************************)
JAbsent == [t |-> "absent"]

JNull == [t |-> "null"]

JStr(s) == [t |-> "string", s |-> s]

JBool(b) == [t |-> "bool", b |-> b]

\* input.get(k).and_then(|v| v.as_str())
as_str(v) == IF v.t = "string" THEN Some(v.s) ELSE None

\* input.get(k).and_then(|v| v.as_bool())
as_bool(v) == IF v.t = "bool" THEN Some(v.b) ELSE None

BuildSend(from, to, amount_eth, simulate) ==
  Builder_build(Builder_simulate(Builder_amount_eth(Builder_to(
    Builder_from(SendRequestBuilder_default, from), to), amount_eth), simulate))

\* SendNativeTool::to_baml_function (tools.rs)
Tool_to_baml_function(input) ==
  LET from == as_str(input.from)
      to == as_str(input.to)
      amount_eth == as_str(input.amount_eth)
      simulate == unwrap_or(as_bool(input.simulate), TRUE)
  IN IF from = None THEN Err("Missing 'from' parameter")
     ELSE IF to = None THEN Err("Missing 'to' parameter")
     ELSE IF amount_eth = None THEN Err("Missing 'amount_eth' parameter")
     ELSE BuildSend(from[1], to[1], amount_eth[1], simulate)

\* validate_and_to_baml_function, the "SendNative" arm (baml_bindings.rs)
validate_and_to_baml_function(input) ==
  LET from == as_str(input.from)
      to == as_str(input.to)
      amount_eth == as_str(input.amount_eth)
      simulate == unwrap_or(as_bool(input.simulate), TRUE)
  IN IF from = None THEN Err("Missing 'from' parameter")
     ELSE IF to = None THEN Err("Missing 'to' parameter")
     ELSE IF amount_eth = None THEN Err("Missing 'amount_eth' parameter")
     ELSE BuildSend(from[1], to[1], amount_eth[1], simulate)

\* The parser's "SendNative" | "SendEth" arm (parser.rs): a missing field
\* yields a Chat reply, which carries no request.
Parser_send(function) ==
  LET from_opt == as_str(function.from)
      to_opt == as_str(function.to)
      amount_opt == as_str(function.amount_eth)
      simulate == unwrap_or(as_bool(function.simulate), TRUE)
  IN IF from_opt = None \/ to_opt = None \/ amount_opt = None
       THEN Err("Chat")
       ELSE BuildSend(from_opt[1], to_opt[1], amount_opt[1], simulate)

\* The parser's keyword fallback for "send"/"transfer" (parser.rs)
Parser_fallback_send(from, to, amount) == BuildSend(from, to, amount, TRUE)

\* BamlTool::send (baml.rs)
BamlTool_send(from, to, amount_eth, simulate) ==
  BuildSend(from, to, amount_eth, unwrap_or(simulate, TRUE))

(***************************************************************************)
(* crates/foundry_adapter: the adapter and its wallet registry.            *)
(***************************************************************************)
\* get_anvil_accounts(): each constant parsed (and unwrapped) as an H160
get_anvil_accounts ==
  << EthAddress_from_str(ANVIL_ACCOUNT_0).v, EthAddress_from_str(ANVIL_ACCOUNT_1).v,
     EthAddress_from_str(ANVIL_ACCOUNT_2).v, EthAddress_from_str(ANVIL_ACCOUNT_3).v,
     EthAddress_from_str(ANVIL_ACCOUNT_4).v >>

\* The key under which FoundryAdapter::new inserts an account's wallet:
\* normalize(&addr.to_string())
WalletKey(addr) == normalize(EthAddress_to_string(addr))

\* HashMap built by inserting (key i, wallet i) in order: a later insert under
\* the same key replaces the earlier one.  A wallet is named by the position
\* of its private key in the list of FoundryAdapter::new.
HashMap_from_inserts(keys) ==
  [k \in {keys[i] : i \in 1..Len(keys)} |->
     CHOOSE i \in 1..Len(keys) :
       keys[i] = k /\ \A j \in 1..Len(keys) : keys[j] = k => j <= i]

HashMap_get(m, k) == IF k \in DOMAIN m THEN Some(m[k]) ELSE None

\* FoundryAdapter::new
FoundryAdapter_new ==
  [gas_cap |-> DEFAULT_GAS_CAP,
   expected_chain_id |-> None,
   known_wallets |->
     HashMap_from_inserts([i \in 1..Len(get_anvil_accounts) |->
                             WalletKey(get_anvil_accounts[i])])]

with_expected_chain_id(self, chain_id) ==
  [self EXCEPT !.expected_chain_id = Some(chain_id)]

\* Mutant of with_gas_cap: the cap is set on a freshly built adapter, which
\* loses the expected chain id configured before.
with_gas_cap_on_fresh(self, gas_cap) ==
  [gas_cap |-> gas_cap, expected_chain_id |-> None, known_wallets |-> self.known_wallets]

with_gas_cap(self, gas_cap) == [self EXCEPT !.gas_cap = gas_cap]

\* AdapterError
\* Mutant of ChainIdMismatch: the two fields are swapped.
ChainIdMismatch_swapped(got, expected) ==
  [kind |-> "ChainIdMismatch", got |-> expected, expected |-> got]

ChainIdMismatch(got, expected) ==
  [kind |-> "ChainIdMismatch", got |-> got, expected |-> expected]

GasCapExceeded(estimated, cap) ==
  [kind |-> "GasCapExceeded", estimated |-> estimated, cap |-> cap]

\* Mutant of MissingLocalKey: the error carries the lookup key, not the sender
\* as given.
MissingLocalKey_of_key(addr) == [kind |-> "MissingLocalKey", addr |-> normalize(addr)]

MissingLocalKey(addr) == [kind |-> "MissingLocalKey", addr |-> addr]

AddrParse(addr) == [kind |-> "AddrParse", addr |-> addr]

ProviderError == [kind |-> "Provider"]

OtherError == [kind |-> "Other"]

\* TxResult::new
TxResult(tx_hash, gas_used, status) ==
  [kind |-> "TxResult", tx_hash |-> tx_hash, gas_used |-> gas_used, status |-> status]

\* send_eth, line 106: the identity guard's comparison
ChainIdDiffers(chain_id, expected) == chain_id # expected

\* Mutant of ExceedsGasCap: an estimate equal to the cap is rejected too.
ExceedsGasCap_inclusive(estimate, gas_cap) == estimate >= gas_cap

\* send_eth, line 116: the cap comparison
ExceedsGasCap(estimate, gas_cap) == estimate > gas_cap

\* Mutant of SimulatedResult: a simulation reports a successful status.
SimulatedResult_with_status(estimate) == [kind |-> "TxResult", tx_hash |-> << >>,
                                          gas_used |-> Some(estimate), status |-> Some(TRUE)]

\* send_eth, line 122: the result of a simulate-only call
SimulatedResult(estimate) == TxResult(<< >>, Some(estimate), None)

\* Mutant of LookupWallet: a sender without an entry gets the first wallet.
LookupWallet_or_first(known_wallets, from) ==
  IF normalize(from) \in DOMAIN known_wallets
    THEN Some(known_wallets[normalize(from)]) ELSE Some(1)

\* send_eth, lines 124-125: the registry lookup by normalized sender
LookupWallet(known_wallets, from) == HashMap_get(known_wallets, normalize(from))

\* Mutant of ReceiptResult: any non-zero status flag counts as success.
ReceiptResult_nonzero(rcpt) ==
  [kind |-> "TxResult", tx_hash |-> FormatLowerHex(rcpt.transaction_hash),
   gas_used |-> IF rcpt.gas_used = None THEN None ELSE Some(rcpt.gas_used[1]),
   status |-> IF rcpt.status = None THEN None ELSE Some(rcpt.status[1] # 0)]

\* send_eth, lines 136-138: the result built from a receipt
ReceiptResult(rcpt) ==
  TxResult(FormatLowerHex(rcpt.transaction_hash),
           IF rcpt.gas_used = None THEN None ELSE Some(rcpt.gas_used[1]),
           IF rcpt.status = None THEN None ELSE Some(rcpt.status[1] = 1))

\* Mutant of UnconfirmedResult: the estimate is dropped from the result.
UnconfirmedResult_without_gas(hash, estimate) ==
  TxResult(FormatLowerHex(hash), None, None)

\* send_eth, line 140: the result when the receipt wait yields none
UnconfirmedResult(hash, estimate) ==
  TxResult(FormatLowerHex(hash), Some(estimate), None)

(***************************************************************************)
(* Inputs and node replies the model draws from.                           *)
(***************************************************************************)
\* Number of calls made on the adapter in one behaviour.
MaxCalls == 2

AnvilAccountStrings ==
  {ANVIL_ACCOUNT_0, ANVIL_ACCOUNT_1, ANVIL_ACCOUNT_2, ANVIL_ACCOUNT_3, ANVIL_ACCOUNT_4}

\* Bob's address in its EIP-55 mixed-case spelling.
BobChecksummed ==
  <<"0","x","7","0","9","9","7","9","7","0","C","5","1","8","1","2","d","c","3","A","0","1","0","C","7","d","0","1","b","5","0","e","0","d","1","7","d","c","7","9","C","8">>

NotAnAddress ==
  <<"n","o","t","-","a","n","-","a","d","d","r","e","s","s">>

\* What H160's Display prints for Alice's address.
AliceAbbreviated ==
  <<"0","x","f","3","9","f","ELLIPSIS","2","2","6","6">>

\* The full 42-character spellings of the known accounts, in lower, upper and
\* mixed case.
KnownSenderStrings ==
  AnvilAccountStrings \cup {UpperHex(a) : a \in AnvilAccountStrings} \cup {BobChecksummed}

FromInputs == KnownSenderStrings \cup {USDC_MAINNET, NotAnAddress, AliceAbbreviated}

ToInputs == {ANVIL_ACCOUNT_1, NotAnAddress}

AmountInputs ==
  { <<"0",".","1">>, <<"1">>,
    <<"i","n","v","a","l","i","d","-","a","m","o","u","n","t">> }

ForkBlockInputs == {None, Some(1)}

ChainIds == {1, 999}

GasCapInputs == {1000, DEFAULT_GAS_CAP}

GasEstimates == {1000, 1001, 21000, DEFAULT_GAS_CAP, DEFAULT_GAS_CAP + 1}

HashA == [i \in 1..64 |-> "a"]

HashB == [i \in 1..64 |-> "b"]

Receipts ==
  [status : {None, Some(0), Some(1), Some(2)},
   gas_used : {None, Some(21000)},
   transaction_hash : {HashA, HashB}]

\* A node reply: Ok(value) or Err.
Replies(values) == {Err("ProviderError")} \cup {Ok(v) : v \in values}

\* Read-query inputs.
AliceEth == <<"a","l","i","c","e",".","e","t","h">>

\* AddressOrEns::from_address / AddressOrEns::from_ens
from_address(address) == [type |-> "Address", value |-> address]

from_ens(name) == [type |-> "Ens", value |-> name]

WhoInputs ==
  {from_address(a) : a \in {ANVIL_ACCOUNT_0, BobChecksummed, NotAnAddress, AliceAbbreviated}}
    \cup {from_ens(AliceEth)}

CodeAddrInputs == {USDC_MAINNET, ANVIL_ACCOUNT_0, NotAnAddress}

TokenInputs == {USDC_MAINNET, NotAnAddress}

HolderInputs == {ANVIL_ACCOUNT_0, NotAnAddress}

\* The all-zero address.
ZeroAddress == [i \in 1..40 |-> "0"]

\* Addresses the name service may answer with.
ResolvedAddresses == {EthAddress_from_str(ANVIL_ACCOUNT_0).v, ZeroAddress}

\* Balances (in wei) and contract code the node may answer with.
Balances == {0, 7, 1000}

Codes == {<< >>, <<96, 128, 96>>}


SendIns ==
  [from : {ANVIL_ACCOUNT_0, USDC_MAINNET}, to : {ANVIL_ACCOUNT_1},
   amount_eth : {<<"0",".","1">>},
   simulate : {None, Some(TRUE), Some(FALSE)}, fork_block : ForkBlockInputs]

JsonStrings(values) == {JAbsent} \cup {JStr(v) : v \in values}

JsonInputs ==
  [from : JsonStrings({ANVIL_ACCOUNT_0}), to : JsonStrings({ANVIL_ACCOUNT_1}),
   amount_eth : JsonStrings({<<"0",".","1">>}),
   simulate : {JAbsent, JNull, JBool(TRUE), JBool(FALSE), JStr(<<"f","a","l","s","e">>)}]

(***************************************************************************)
(* State.                                                                  *)
(*   adapter       the FoundryAdapter instance in use                      *)
(*   builder       a SendRequestBuilder under construction                 *)
(*   called        the builder methods called on it so far                 *)
(*   build_result  Some(result) of the last construction of a request      *)
(*   req           Some(SendRequest) once one was constructed              *)
(*   origin        how req was constructed, and whether the caller gave    *)
(*                 a simulate value                                        *)
(*   pc            where the running send_eth call is suspended            *)
(*   trace         the steps of the running call, each with its result     *)
(*   typed         the transaction built from the request                  *)
(*   est           the node's gas estimate                                 *)
(*   wallet        the credential taken from the registry                  *)
(*   tx_hash       the hash of the pending transaction                     *)
(*   outcome       Some(result or error) once the call returned            *)
(*   ncalls        adapter calls completed                                 *)
(*   query         Some(read query) while one is running: its operation    *)
(*                 and its request                                         *)
(*   qpc           where the running read query is suspended               *)
(*   qtrace        the steps of the running read query                     *)
(*   target        the address handed to the node by the read query        *)
(*   qresult       Some(Ok(value) or Err(error)) once the query returned   *)
(*   to_string_form  what to_string() of an EthAddress writes: "Display"   *)
(*                 in the build of the source                              *)
(*   lhs, rhs      two domain Address values                               *)
(*   equal         Some(lhs == rhs) once they were compared                *)
(*   cli           Some(parsed command line) of the client                 *)
(*   intent        Some(input the client's parser maps to a transfer)      *)
(*   baml_function Some(SendRequest) of the selected BamlFunction::Send    *)
(*   posted        Some(body posted to the server's /send)                 *)
(*   abis          LruCache.abis: key -> CachedAbi                         *)
(*   cache_now     Instant::now() as seen by the cache                     *)
(*   last_set      Some(the last set_abi: key, map before, key removed)    *)
(*   got_abi       Some(the last get_abi: key, result)                     *)
(*   lookup_cache  TokenLookupClient.cache: key -> (TokenInfo, Instant)    *)
(*   lookup_now    Instant::now() as seen by the lookup client             *)
(*   lookup        Some(the lookup_by_symbol call in progress or returned) *)
(*   lookup_pc     "idle", "sending" or "done"                             *)
(*   attempt       the loop counter of lookup_by_symbol                    *)
(*   responses     the HTTP responses the current lookup received          *)
(*   lookup_result Some(Result<Option<TokenInfo>>) of the lookup           *)
(*   fetched       per (symbol, chain): the last token fetched over HTTP   *)
(*   nlookups      number of lookups started                               *)
(*   sessions      SessionStore.inner: session id -> SessionData           *)
(*   session_now   Instant::now() as seen by the session store             *)
(*   session_pc    per thread: the SessionStore call it is inside          *)
(*   session_ret   Some(what the last get or get_partial_intent returned)  *)
(*   appended      per session id: every turn ever pushed, in order        *)
(*   last_append   Some(the last append: id, turns before and after)       *)
(*   nsessionops   number of SessionStore calls started                    *)
(*   parked        the bag of calls suspended at an awaited node call      *)
(*   shared        Some(the adapter as shared by the concurrent calls)     *)
(***************************************************************************)
VARIABLES adapter, builder, called, build_result, req, origin,
          pc, trace, typed, est, wallet, tx_hash, outcome, ncalls,
          query, qpc, qtrace, target, qresult, to_string_form,
          lhs, rhs, equal,
          cli, intent, baml_function, posted,
          abis, cache_now, last_set, got_abi,
          lookup_cache, lookup_now, lookup, lookup_pc, attempt, responses, lookup_result, fetched, nlookups,
          sessions, session_now, session_pc, session_ret, appended, last_append, nsessionops,
          parked, shared

vars == <<adapter, builder, called, build_result, req, origin,
          pc, trace, typed, est, wallet, tx_hash, outcome, ncalls,
          query, qpc, qtrace, target, qresult, to_string_form,
          lhs, rhs, equal,
          cli, intent, baml_function, posted,
          abis, cache_now, last_set, got_abi,
          lookup_cache, lookup_now, lookup, lookup_pc, attempt, responses, lookup_result, fetched, nlookups,
          sessions, session_now, session_pc, session_ret, appended, last_append, nsessionops,
          parked, shared>>

callVars == <<pc, trace, typed, est, wallet, tx_hash, outcome>>

requestVars == <<builder, called, build_result, req, origin>>

queryVars == <<query, qpc, qtrace, target, qresult>>

\* The adapter, its configuration and the locals of the calls on it.
adapterVars ==
  <<adapter, builder, called, build_result, req, origin,
    pc, trace, typed, est, wallet, tx_hash, outcome, ncalls,
    query, qpc, qtrace, target, qresult, to_string_form>>

addressVars == <<lhs, rhs, equal>>

\* The state outside the adapter and its calls.
cliVars == <<cli, intent, baml_function, posted>>

cacheVars == <<abis, cache_now, last_set, got_abi>>

lookupVars == <<lookup_cache, lookup_now, lookup, lookup_pc, attempt, responses, lookup_result, fetched, nlookups>>

sessionVars == <<sessions, session_now, session_pc, session_ret, appended, last_append, nsessionops>>

taskVars == <<parked, shared>>

asideVars == <<addressVars, cliVars, cacheVars, lookupVars, sessionVars, taskVars>>

\* What the steps of one component leave alone: the adapter and the other
\* components.
exceptAddress == <<adapterVars, cliVars, cacheVars, lookupVars, sessionVars, taskVars>>

exceptCli == <<adapterVars, addressVars, cacheVars, lookupVars, sessionVars, taskVars>>

exceptCache == <<adapterVars, addressVars, cliVars, lookupVars, sessionVars, taskVars>>

exceptLookup == <<adapterVars, addressVars, cliVars, cacheVars, sessionVars, taskVars>>

exceptSessions == <<adapterVars, addressVars, cliVars, cacheVars, lookupVars, taskVars>>

exceptTasks == <<adapterVars, addressVars, cliVars, cacheVars, lookupVars, sessionVars>>

\* A step of the call: a node round-trip or a local check, its result
\* ("pending", "ok" or "err") and, for a node call that succeeded, the value
\* the node replied.
Step(op, res) == [op |-> op, res |-> res, val |-> None]

\* The trace with the pending node call at its end answered: by an error, or
\* by a value.
Failed(t) == [t EXCEPT ![Len(t)].res = "err"]

Replied(t, v) == [t EXCEPT ![Len(t)].res = "ok", ![Len(t)].val = Some(v)]

InitCall ==
  /\ pc = "idle" /\ trace = << >> /\ typed = None /\ est = None
  /\ wallet = None /\ tx_hash = None /\ outcome = None

InitRequest ==
  /\ builder = SendRequestBuilder_default /\ called = {}
  /\ build_result = None /\ req = None /\ origin = None

InitQuery ==
  /\ query = None /\ qpc = "idle" /\ qtrace = << >> /\ target = None
  /\ qresult = None

\* No Address value is at hand.
InitAddress == lhs = None /\ rhs = None /\ equal = None

InitCli ==
  cli = None /\ intent = None /\ baml_function = None /\ posted = None

InitCache ==
  abis = << >> /\ cache_now = 0 /\ last_set = None /\ got_abi = None

InitLookup ==
  /\ lookup_cache = << >> /\ lookup_now = 0 /\ lookup = None /\ lookup_pc = "idle"
  /\ attempt = 0 /\ responses = << >> /\ lookup_result = None /\ fetched = << >>
  /\ nlookups = 0

\* The threads calling into the session store and their inputs.
SessionThreads == {"t1", "t2"}

SessionIds == {"s1", "s2", "s3"}

Roles == {"user"}

Contents == {"hello", "send"}

PartialIntents == {"intent"}

InitSessions ==
  /\ sessions = << >> /\ session_now = 0
  /\ session_pc = [t \in SessionThreads |-> [op |-> "idle"]]
  /\ session_ret = None /\ appended = [id \in SessionIds |-> << >>]
  /\ last_append = None /\ nsessionops = 0

InitTasks ==
  parked = EmptyBag /\ shared = None

InitAside == InitAddress /\ InitCli /\ InitCache /\ InitLookup /\ InitSessions /\ InitTasks

Init ==
  /\ adapter = FoundryAdapter_new
  /\ to_string_form = "Display"
  /\ InitRequest
  /\ InitCall
  /\ InitQuery
  /\ ncalls = 0
  /\ InitAside

(***************************************************************************)
(* Configuration: with_gas_cap and with_expected_chain_id consume the      *)
(* adapter and return the configured one, before it is shared.             *)
(***************************************************************************)
Configurable ==
  /\ pc = "idle" /\ qpc = "idle" /\ req = None /\ build_result = None /\ ncalls = 0
  /\ builder = SendRequestBuilder_default /\ called = {}

WithGasCap ==
  /\ Configurable
  /\ \E c \in GasCapInputs : adapter' = with_gas_cap(adapter, c)
  /\ UNCHANGED <<requestVars, callVars, ncalls, queryVars, to_string_form, asideVars>>

WithExpectedChainId ==
  /\ Configurable
  /\ \E id \in ChainIds : adapter' = with_expected_chain_id(adapter, id)
  /\ UNCHANGED <<requestVars, callVars, ncalls, queryVars, to_string_form, asideVars>>

(***************************************************************************)
(* Constructing a SendRequest.                                             *)
(***************************************************************************)
Building ==
  /\ pc = "idle" /\ qpc = "idle"
  /\ req = None /\ build_result = None /\ ncalls < MaxCalls

BuilderFrom ==
  /\ Building
  /\ \E a \in FromInputs : builder' = Builder_from(builder, a)
  /\ called' = called \cup {"from"}
  /\ UNCHANGED <<adapter, build_result, req, origin, callVars, ncalls, queryVars, to_string_form, asideVars>>

BuilderTo ==
  /\ Building
  /\ \E a \in ToInputs : builder' = Builder_to(builder, a)
  /\ called' = called \cup {"to"}
  /\ UNCHANGED <<adapter, build_result, req, origin, callVars, ncalls, queryVars, to_string_form, asideVars>>

BuilderAmountEth ==
  /\ Building
  /\ \E s \in AmountInputs : builder' = Builder_amount_eth(builder, s)
  /\ called' = called \cup {"amount_eth"}
  /\ UNCHANGED <<adapter, build_result, req, origin, callVars, ncalls, queryVars, to_string_form, asideVars>>

BuilderSimulate ==
  /\ Building
  /\ \E v \in BOOLEAN : builder' = Builder_simulate(builder, v)
  /\ called' = called \cup {"simulate"}
  /\ UNCHANGED <<adapter, build_result, req, origin, callVars, ncalls, queryVars, to_string_form, asideVars>>

BuilderForkBlock ==
  /\ Building
  /\ \E o \in ForkBlockInputs : builder' = Builder_fork_block(builder, o)
  /\ called' = called \cup {"fork_block"}
  /\ UNCHANGED <<adapter, build_result, req, origin, callVars, ncalls, queryVars, to_string_form, asideVars>>

\* The request (if any) a construction produced, and how it was asked for.
Constructed(result, path, explicit) ==
  /\ build_result' = Some(result)
  /\ req' = IF result.ok THEN Some(result.v) ELSE None
  /\ origin' = Some([path |-> path, explicit |-> explicit])
  /\ builder' = SendRequestBuilder_default

BuilderBuild ==
  /\ Building
  /\ Constructed(Builder_build(builder), "builder", "simulate" \in called)
  /\ UNCHANGED <<adapter, called, callVars, ncalls, queryVars, to_string_form, asideVars>>

Fresh == Building /\ called = {}

FromSendIn ==
  /\ Fresh
  /\ \E in \in SendIns : Constructed(SendIn_try_into(in), "SendIn", in.simulate # None)
  /\ UNCHANGED <<adapter, called, callVars, ncalls, queryVars, to_string_form, asideVars>>

FromTool ==
  /\ Fresh
  /\ \E input \in JsonInputs :
       Constructed(Tool_to_baml_function(input), "tool", as_bool(input.simulate) # None)
  /\ UNCHANGED <<adapter, called, callVars, ncalls, queryVars, to_string_form, asideVars>>

FromBindings ==
  /\ Fresh
  /\ \E input \in JsonInputs :
       Constructed(validate_and_to_baml_function(input), "bindings",
                   as_bool(input.simulate) # None)
  /\ UNCHANGED <<adapter, called, callVars, ncalls, queryVars, to_string_form, asideVars>>

FromParser ==
  /\ Fresh
  /\ \E function \in JsonInputs :
       Constructed(Parser_send(function), "parser", as_bool(function.simulate) # None)
  /\ UNCHANGED <<adapter, called, callVars, ncalls, queryVars, to_string_form, asideVars>>

FromParserFallback ==
  /\ Fresh
  /\ \E in \in SendIns :
       Constructed(Parser_fallback_send(in.from, in.to, in.amount_eth), "fallback", FALSE)
  /\ UNCHANGED <<adapter, called, callVars, ncalls, queryVars, to_string_form, asideVars>>

FromBamlTool ==
  /\ Fresh
  /\ \E in \in SendIns :
       Constructed(BamlTool_send(in.from, in.to, in.amount_eth, in.simulate), "BamlTool",
                   in.simulate # None)
  /\ UNCHANGED <<adapter, called, callVars, ncalls, queryVars, to_string_form, asideVars>>

\* The request and the builder are dropped.
ResetRequest ==
  /\ builder' = SendRequestBuilder_default /\ called' = {}
  /\ build_result' = None /\ req' = None /\ origin' = None

\* A construction that failed leaves nothing to send.
Discard ==
  /\ pc = "idle" /\ build_result # None /\ req = None
  /\ ResetRequest
  /\ UNCHANGED <<adapter, callVars, ncalls, queryVars, to_string_form, asideVars>>

(***************************************************************************)
(* FoundryAdapter::send_eth.  One action per stretch of code between two   *)
(* suspension points (the awaited node round-trips).                       *)
(***************************************************************************)
\* The call returns: Ok(TxResult) or Err(AdapterError).
Return(result, t) ==
  /\ outcome' = Some(result)
  /\ trace' = t
  /\ pc' = "done"

\* Mutant of ParseAndEstimate: the recipient is not validated before the
\* estimate is asked for.
ParseAndEstimate_unchecked_to(t) ==
  LET r == req[1]
      from_addr == EthAddress_from_str(r.from)
      value == parse_ether(r.amount_eth)
  IN IF ~from_addr.ok
       THEN Return(AddrParse(r.from), Append(t, Step("parse_from", "err")))
            /\ UNCHANGED typed
     ELSE IF ~value.ok
       THEN Return(OtherError,
                   t \o <<Step("parse_from", "ok"), Step("parse_amount", "err")>>)
            /\ UNCHANGED typed
     ELSE /\ typed' = Some([from |-> from_addr.v, to |-> r.to,
                            value |-> value.v, gas |-> None])
          /\ trace' = t \o <<Step("parse_from", "ok"), Step("parse_amount", "ok"),
                             Step("estimate_gas", "pending")>>
          /\ pc' = "estimate_gas"
          /\ UNCHANGED outcome

\* Lines 110-115: parse sender, recipient and amount, build the transaction
\* and ask the node for the gas estimate.
ParseAndEstimate(t) ==
  LET r == req[1]
      from_addr == EthAddress_from_str(r.from)
      to_addr == EthAddress_from_str(r.to)
      value == parse_ether(r.amount_eth)
  IN IF ~from_addr.ok
       THEN Return(AddrParse(r.from), Append(t, Step("parse_from", "err")))
            /\ UNCHANGED typed
     ELSE IF ~to_addr.ok
       THEN Return(AddrParse(r.to),
                   t \o <<Step("parse_from", "ok"), Step("parse_to", "err")>>)
            /\ UNCHANGED typed
     ELSE IF ~value.ok
       THEN Return(OtherError,
                   t \o <<Step("parse_from", "ok"), Step("parse_to", "ok"),
                          Step("parse_amount", "err")>>)
            /\ UNCHANGED typed
     ELSE /\ typed' = Some([from |-> from_addr.v, to |-> to_addr.v,
                            value |-> value.v, gas |-> None])
          /\ trace' = t \o <<Step("parse_from", "ok"), Step("parse_to", "ok"),
                             Step("parse_amount", "ok"),
                             Step("estimate_gas", "pending")>>
          /\ pc' = "estimate_gas"
          /\ UNCHANGED outcome

\* Lines 104-105 (and 110-115 when no chain id is expected).
SendEth ==
  /\ pc = "idle" /\ req # None /\ ncalls < MaxCalls
  /\ IF adapter.expected_chain_id # None
       THEN /\ pc' = "get_chainid"
            /\ trace' = <<Step("get_chainid", "pending")>>
            /\ UNCHANGED <<typed, outcome>>
       ELSE ParseAndEstimate(<< >>)
  /\ UNCHANGED <<adapter, requestVars, est, wallet, tx_hash, ncalls, queryVars, to_string_form, asideVars>>

\* Lines 105-115: the node's chain id arrives.
ChainIdReply ==
  /\ pc = "get_chainid"
  /\ \E resp \in Replies(ChainIds) :
       IF ~resp.ok
         THEN Return(ProviderError, Failed(trace)) /\ UNCHANGED typed
       ELSE IF ChainIdDiffers(resp.v, adapter.expected_chain_id[1])
         THEN Return(ChainIdMismatch(resp.v, adapter.expected_chain_id[1]),
                     Append(Replied(trace, resp.v), Step("chain_id_guard", "err")))
              /\ UNCHANGED typed
       ELSE ParseAndEstimate(Append(Replied(trace, resp.v), Step("chain_id_guard", "ok")))
  /\ UNCHANGED <<adapter, requestVars, est, wallet, tx_hash, ncalls, queryVars, to_string_form, asideVars>>

\* Mutant of EstimateReply: a failed estimate is asked for once more.
EstimateReply_retry ==
  /\ pc = "estimate_gas"
  /\ \E resp \in Replies(GasEstimates) :
       IF ~resp.ok
         THEN IF \E i \in DOMAIN trace : trace[i].op = "estimate_gas" /\ trace[i].res = "err"
                THEN Return(ProviderError, Failed(trace)) /\ UNCHANGED <<typed, est>>
                ELSE /\ trace' = Append(Failed(trace), Step("estimate_gas", "pending"))
                     /\ UNCHANGED <<pc, outcome, typed, est>>
       ELSE /\ est' = Some(resp.v)
            /\ IF ExceedsGasCap(resp.v, adapter.gas_cap)
                 THEN Return(GasCapExceeded(resp.v, adapter.gas_cap),
                             Append(Replied(trace, resp.v), Step("gas_cap_check", "err")))
                      /\ UNCHANGED typed
                 ELSE /\ typed' = Some([typed[1] EXCEPT !.gas = Some(resp.v)])
                      /\ trace' = Replied(trace, resp.v)
                                    \o <<Step("gas_cap_check", "ok"), Step("call", "pending")>>
                      /\ pc' = "call"
                      /\ UNCHANGED outcome
  /\ UNCHANGED <<adapter, requestVars, wallet, tx_hash, ncalls, queryVars, to_string_form, asideVars>>

\* Lines 115-120: the estimate arrives.
EstimateReply ==
  /\ pc = "estimate_gas"
  /\ \E resp \in Replies(GasEstimates) :
       IF ~resp.ok
         THEN Return(ProviderError, Failed(trace)) /\ UNCHANGED <<typed, est>>
       ELSE /\ est' = Some(resp.v)
            /\ IF ExceedsGasCap(resp.v, adapter.gas_cap)
                 THEN Return(GasCapExceeded(resp.v, adapter.gas_cap),
                             Append(Replied(trace, resp.v), Step("gas_cap_check", "err")))
                      /\ UNCHANGED typed
                 ELSE /\ typed' = Some([typed[1] EXCEPT !.gas = Some(resp.v)])
                      /\ trace' = Replied(trace, resp.v)
                                    \o <<Step("gas_cap_check", "ok"), Step("call", "pending")>>
                      /\ pc' = "call"
                      /\ UNCHANGED outcome
  /\ UNCHANGED <<adapter, requestVars, wallet, tx_hash, ncalls, queryVars, to_string_form, asideVars>>

\* Mutant of CallReply: the simulation's failure is dropped along with its
\* result.
CallReply_ignoring_failure ==
  /\ pc = "call"
  /\ \E ok \in BOOLEAN :
       LET t == IF ok THEN Replied(trace, "0x") ELSE Failed(trace) IN
       IF req[1].simulate
         THEN Return(SimulatedResult(est[1]), t) /\ UNCHANGED wallet
       ELSE LET found == LookupWallet(adapter.known_wallets, req[1].from) IN
         IF found = None
           THEN Return(MissingLocalKey(req[1].from),
                       Append(t, Step("wallet_lookup", "err")))
                /\ UNCHANGED wallet
           ELSE /\ wallet' = Some([key |-> found[1], chain_id |-> None])
                /\ trace' = t \o <<Step("wallet_lookup", "ok"), Step("get_chainid", "pending")>>
                /\ pc' = "sign_chainid"
                /\ UNCHANGED outcome
  /\ UNCHANGED <<adapter, requestVars, typed, est, tx_hash, ncalls, queryVars, to_string_form, asideVars>>

\* Lines 120-126: the simulation call returns; simulate-or-broadcast branch.
CallReply ==
  /\ pc = "call"
  /\ \E ok \in BOOLEAN :
       IF ~ok
         THEN Return(ProviderError, Failed(trace)) /\ UNCHANGED wallet
       ELSE IF req[1].simulate
         THEN Return(SimulatedResult(est[1]), Replied(trace, "0x")) /\ UNCHANGED wallet
       ELSE LET found == LookupWallet(adapter.known_wallets, req[1].from) IN
         IF found = None
           THEN Return(MissingLocalKey(req[1].from),
                       Append(Replied(trace, "0x"), Step("wallet_lookup", "err")))
                /\ UNCHANGED wallet
           ELSE /\ wallet' = Some([key |-> found[1], chain_id |-> None])
                /\ trace' = Replied(trace, "0x")
                              \o <<Step("wallet_lookup", "ok"), Step("get_chainid", "pending")>>
                /\ pc' = "sign_chainid"
                /\ UNCHANGED outcome
  /\ UNCHANGED <<adapter, requestVars, typed, est, tx_hash, ncalls, queryVars, to_string_form, asideVars>>

\* Mutant of SignChainIdReply: the wallet is moved out of the registry into
\* the signer.
SignChainIdReply_taking_wallet ==
  /\ pc = "sign_chainid"
  /\ \E resp \in Replies(ChainIds) :
       IF ~resp.ok
         THEN Return(ProviderError, Failed(trace)) /\ UNCHANGED <<wallet, adapter>>
         ELSE /\ wallet' = Some([wallet[1] EXCEPT !.chain_id = Some(resp.v)])
              /\ adapter' = [adapter EXCEPT !.known_wallets =
                                [k \in (DOMAIN @) \ {normalize(req[1].from)} |-> @[k]]]
              /\ trace' = Append(Replied(trace, resp.v), Step("send_transaction", "pending"))
              /\ pc' = "send_transaction"
              /\ UNCHANGED outcome
  /\ UNCHANGED <<requestVars, typed, est, tx_hash, ncalls, queryVars, to_string_form, asideVars>>

\* Lines 126-132: the chain id for signing arrives; sign and submit.
SignChainIdReply ==
  /\ pc = "sign_chainid"
  /\ \E resp \in Replies(ChainIds) :
       IF ~resp.ok
         THEN Return(ProviderError, Failed(trace)) /\ UNCHANGED wallet
         ELSE /\ wallet' = Some([wallet[1] EXCEPT !.chain_id = Some(resp.v)])
              /\ trace' = Append(Replied(trace, resp.v), Step("send_transaction", "pending"))
              /\ pc' = "send_transaction"
              /\ UNCHANGED outcome
  /\ UNCHANGED <<adapter, requestVars, typed, est, tx_hash, ncalls, queryVars, to_string_form, asideVars>>

\* Mutant of SendTransactionReply: a failed submission is reported and the
\* receipt is waited for all the same.
SendTransactionReply_unchecked ==
  /\ pc = "send_transaction"
  /\ \E resp \in Replies({HashA}) :
       IF ~resp.ok
         THEN /\ outcome' = Some(OtherError)
              /\ tx_hash' = Some(HashA)
              /\ trace' = Append(Failed(trace), Step("receipt", "pending"))
              /\ pc' = "receipt"
         ELSE /\ tx_hash' = Some(resp.v)
              /\ trace' = Append(Replied(trace, resp.v), Step("receipt", "pending"))
              /\ pc' = "receipt"
              /\ UNCHANGED outcome
  /\ UNCHANGED <<adapter, requestVars, typed, est, wallet, ncalls, queryVars, to_string_form, asideVars>>

\* Lines 129-134: the submission returns the pending transaction.
SendTransactionReply ==
  /\ pc = "send_transaction"
  /\ \E resp \in Replies({HashA}) :
       IF ~resp.ok
         THEN Return(OtherError, Failed(trace)) /\ UNCHANGED tx_hash
         ELSE /\ tx_hash' = Some(resp.v)
              /\ trace' = Append(Replied(trace, resp.v), Step("receipt", "pending"))
              /\ pc' = "receipt"
              /\ UNCHANGED outcome
  /\ UNCHANGED <<adapter, requestVars, typed, est, wallet, ncalls, queryVars, to_string_form, asideVars>>

\* Lines 134-141: the receipt wait ends.
ReceiptReply ==
  /\ pc = "receipt"
  /\ \E resp \in Replies({None} \cup {Some(r) : r \in Receipts}) :
       IF ~resp.ok
         THEN Return(ProviderError, Failed(trace))
       ELSE IF resp.v # None
         THEN Return(ReceiptResult(resp.v[1]), Replied(trace, resp.v))
         ELSE Return(UnconfirmedResult(tx_hash[1], est[1]), Replied(trace, resp.v))
  /\ UNCHANGED <<adapter, requestVars, typed, est, wallet, tx_hash, ncalls, queryVars, to_string_form, asideVars>>

\* The caller takes the result; the request and the call's locals are dropped.
Finish ==
  /\ pc = "done"
  /\ pc' = "idle" /\ trace' = << >> /\ typed' = None /\ est' = None
  /\ wallet' = None /\ tx_hash' = None /\ outcome' = None
  /\ ResetRequest
  /\ ncalls' = ncalls + 1
  /\ UNCHANGED <<adapter, queryVars, to_string_form, asideVars>>

(***************************************************************************)
(* The read queries: resolve_address_or_ens, get_balance, get_code_len and *)
(* erc20_balance_of.  One action per stretch of code between two awaited   *)
(* node round-trips.                                                       *)
(***************************************************************************)
\* A step that succeeded with a value.
StepVal(op, v) == [op |-> op, res |-> "ok", val |-> Some(v)]

\* parsed.to_string() / resolved.to_string() of lines 70 and 74.
H160_to_string(a) ==
  IF to_string_form = "Display" THEN EthAddress_to_string(a) ELSE FormatLowerHex(a)

\* The query returns: Ok(value) or Err(AdapterError).
QReturn(result, t) ==
  /\ qresult' = Some(result)
  /\ qtrace' = t
  /\ qpc' = "done"

\* Lines 68-70: the Address variant of resolve_address_or_ens.
resolve_address(addr) ==
  LET parsed == EthAddress_from_str(addr)
  IN IF ~parsed.ok THEN Err(AddrParse(addr)) ELSE Ok(H160_to_string(parsed.v))

\* resolve_address_or_ens returned Ok(addr) to its caller: the call itself
\* returns, or get_balance goes on (lines 81-82) to parse the Address and ask
\* the node for the balance.
Resolved(op, t, addr) ==
  IF op = "resolve_address_or_ens"
    THEN QReturn(Ok(addr), t) /\ UNCHANGED target
  ELSE LET parsed == EthAddress_from_str(addr) IN
    IF ~parsed.ok
      THEN QReturn(Err(AddrParse(addr)), Append(t, Step("parse_resolved", "err")))
           /\ UNCHANGED target
      ELSE /\ target' = Some(<<parsed.v>>)
           /\ qtrace' = t \o <<Step("parse_resolved", "ok"), Step("get_balance", "pending")>>
           /\ qpc' = "get_balance"
           /\ UNCHANGED qresult

\* Mutant of Resolve: the identity guard of send_eth is applied to the read
\* queries as well.
Resolve_guarded(op, input) ==
  IF adapter.expected_chain_id # None
    THEN /\ qpc' = "get_chainid"
         /\ qtrace' = <<Step("get_chainid", "pending")>>
         /\ UNCHANGED <<target, qresult>>
  ELSE IF input.type = "Address"
    THEN LET r == resolve_address(input.value) IN
      IF ~r.ok
        THEN QReturn(r, <<Step("parse_address", "err")>>) /\ UNCHANGED target
        ELSE Resolved(op, <<StepVal("parse_address", r.v)>>, r.v)
    ELSE /\ qpc' = "resolve_name"
         /\ qtrace' = <<Step("resolve_name", "pending")>>
         /\ UNCHANGED <<target, qresult>>

\* Lines 67-73 (and 80): resolve the identity, or ask the name service.
Resolve(op, input) ==
  IF input.type = "Address"
    THEN LET r == resolve_address(input.value) IN
      IF ~r.ok
        THEN QReturn(r, <<Step("parse_address", "err")>>) /\ UNCHANGED target
        ELSE Resolved(op, <<StepVal("parse_address", r.v)>>, r.v)
    ELSE /\ qpc' = "resolve_name"
         /\ qtrace' = <<Step("resolve_name", "pending")>>
         /\ UNCHANGED <<target, qresult>>

ResolveAddressOrEns ==
  /\ Fresh
  /\ \E input \in WhoInputs :
       /\ query' = Some([op |-> "resolve_address_or_ens", input |-> input])
       /\ Resolve("resolve_address_or_ens", input)
  /\ UNCHANGED <<adapter, requestVars, callVars, ncalls, to_string_form, asideVars>>

GetBalance ==
  /\ Fresh
  /\ \E who \in WhoInputs :
       /\ query' = Some([op |-> "get_balance", input |-> who])
       /\ Resolve("get_balance", who)
  /\ UNCHANGED <<adapter, requestVars, callVars, ncalls, to_string_form, asideVars>>

\* Mutant of ResolveNameReply: a failed lookup resolves to the default
\* (all-zero) address.
ResolveNameReply_or_default ==
  /\ qpc = "resolve_name"
  /\ \E resp \in Replies(ResolvedAddresses) :
       IF ~resp.ok
         THEN Resolved(query[1].op, Failed(qtrace), H160_to_string(ZeroAddress))
         ELSE Resolved(query[1].op, Replied(qtrace, resp.v), H160_to_string(resp.v))
  /\ UNCHANGED <<adapter, requestVars, callVars, ncalls, query, to_string_form, asideVars>>

\* Lines 73-74 (and 80-82): the name service answers.
ResolveNameReply ==
  /\ qpc = "resolve_name"
  /\ \E resp \in Replies(ResolvedAddresses) :
       IF ~resp.ok
         THEN QReturn(Err(ProviderError), Failed(qtrace)) /\ UNCHANGED target
         ELSE Resolved(query[1].op, Replied(qtrace, resp.v), H160_to_string(resp.v))
  /\ UNCHANGED <<adapter, requestVars, callVars, ncalls, query, to_string_form, asideVars>>

\* Lines 82-83: the balance arrives.
GetBalanceReply ==
  /\ qpc = "get_balance"
  /\ \E resp \in Replies(Balances) :
       IF ~resp.ok
         THEN QReturn(Err(ProviderError), Failed(qtrace))
         ELSE QReturn(Ok(U256_to_string(resp.v)), Replied(qtrace, resp.v))
  /\ UNCHANGED <<adapter, requestVars, callVars, ncalls, query, target, to_string_form, asideVars>>

\* Mutant of GetCodeLen: an address that does not parse is replaced by the
\* default (all-zero) address and the node is asked about that one.
GetCodeLen_lenient ==
  /\ Fresh
  /\ \E addr \in CodeAddrInputs :
       /\ query' = Some([op |-> "get_code_len", addr |-> addr])
       /\ LET parsed == EthAddress_from_str(addr) IN
            /\ target' = Some(<<IF parsed.ok THEN parsed.v ELSE ZeroAddress>>)
            /\ qtrace' = <<Step("parse_addr", "ok"), Step("get_code", "pending")>>
            /\ qpc' = "get_code"
            /\ UNCHANGED qresult
  /\ UNCHANGED <<adapter, requestVars, callVars, ncalls, to_string_form, asideVars>>

\* Lines 87-88: parse the address and ask the node for its code.
GetCodeLen ==
  /\ Fresh
  /\ \E addr \in CodeAddrInputs :
       /\ query' = Some([op |-> "get_code_len", addr |-> addr])
       /\ LET parsed == EthAddress_from_str(addr) IN
            IF ~parsed.ok
              THEN QReturn(Err(AddrParse(addr)), <<Step("parse_addr", "err")>>)
                   /\ UNCHANGED target
              ELSE /\ target' = Some(<<parsed.v>>)
                   /\ qtrace' = <<Step("parse_addr", "ok"), Step("get_code", "pending")>>
                   /\ qpc' = "get_code"
                   /\ UNCHANGED qresult
  /\ UNCHANGED <<adapter, requestVars, callVars, ncalls, to_string_form, asideVars>>

\* Lines 88-90: the code arrives.
GetCodeReply ==
  /\ qpc = "get_code"
  /\ \E resp \in Replies(Codes) :
       IF ~resp.ok
         THEN QReturn(Err(ProviderError), Failed(qtrace))
         ELSE QReturn(Ok(<<Len(resp.v) > 0, Len(resp.v)>>), Replied(qtrace, resp.v))
  /\ UNCHANGED <<adapter, requestVars, callVars, ncalls, query, target, to_string_form, asideVars>>

\* Lines 94-99: parse token and holder, build the balanceOf call (the ABI is
\* a constant and encoding an address argument cannot fail) and send it.
Erc20BalanceOf ==
  /\ Fresh
  /\ \E tok \in TokenInputs, hol \in HolderInputs :
       /\ query' = Some([op |-> "erc20_balance_of", token |-> tok, holder |-> hol])
       /\ LET token == EthAddress_from_str(tok)
              holder == EthAddress_from_str(hol)
          IN IF ~token.ok
               THEN QReturn(Err(AddrParse(tok)), <<Step("parse_token", "err")>>)
                    /\ UNCHANGED target
             ELSE IF ~holder.ok
               THEN QReturn(Err(AddrParse(hol)),
                            <<Step("parse_token", "ok"), Step("parse_holder", "err")>>)
                    /\ UNCHANGED target
             ELSE /\ target' = Some(<<token.v, holder.v>>)
                  /\ qtrace' = <<Step("parse_token", "ok"), Step("parse_holder", "ok"),
                                 Step("balanceOf", "pending")>>
                  /\ qpc' = "balanceOf"
                  /\ UNCHANGED qresult
  /\ UNCHANGED <<adapter, requestVars, callVars, ncalls, to_string_form, asideVars>>

\* Lines 99-100: the contract call returns.
Erc20Reply ==
  /\ qpc = "balanceOf"
  /\ \E resp \in Replies(Balances) :
       IF ~resp.ok
         THEN QReturn(Err(OtherError), Failed(qtrace))
         ELSE QReturn(Ok(U256_to_string(resp.v)), Replied(qtrace, resp.v))
  /\ UNCHANGED <<adapter, requestVars, callVars, ncalls, query, target, to_string_form, asideVars>>

\* The caller takes the query's result.
FinishQuery ==
  /\ qpc = "done"
  /\ query' = None /\ qpc' = "idle" /\ qtrace' = << >> /\ target' = None
  /\ qresult' = None
  /\ ncalls' = ncalls + 1
  /\ UNCHANGED <<adapter, requestVars, callVars, to_string_form, asideVars>>

ReadQuery ==
  \/ ResolveAddressOrEns \/ GetBalance \/ ResolveNameReply
  \/ GetCodeLen \/ GetCodeReply
  \/ Erc20BalanceOf \/ Erc20Reply
  \/ FinishQuery

ConstructRequest ==
  \/ BuilderFrom \/ BuilderTo \/ BuilderAmountEth \/ BuilderSimulate
  \/ BuilderForkBlock \/ BuilderBuild
  \/ FromSendIn \/ FromTool \/ FromBindings \/ FromParser \/ FromParserFallback
  \/ FromBamlTool \/ Discard

\* Every step the adapter built by FoundryAdapter::new can take.
Next ==
  \/ WithGasCap \/ WithExpectedChainId
  \/ ConstructRequest
  \/ SendEth \/ ChainIdReply \/ EstimateReply \/ CallReply
  \/ Finish
  \/ ReadQuery

Spec == Init /\ [][Next]_vars

(***************************************************************************)
(* The broadcast branch and the balance call.  LookupWallet finds nothing  *)
(* in the registry that FoundryAdapter::new builds (its keys are the       *)
(* abbreviated Display form, and a sender that parses is never of that     *)
(* form), and get_balance cannot parse the Address that                    *)
(* resolve_address_or_ens returns (the same abbreviated form), so under    *)
(* Spec lines 126-141 of send_eth and lines 82-83 of get_balance are never *)
(* reached.  SpecBroadcast starts from either form: the one of the source, *)
(* or the one the design describes, where the registry is keyed by, and a  *)
(* resolved Address is, the normalized full hex address.  Its behaviours   *)
(* include every behaviour of Spec.                                        *)
(***************************************************************************)
DocumentedWalletKey(addr) == normalize(FormatLowerHex(addr))

DocumentedKnownWallets ==
  HashMap_from_inserts([i \in 1..Len(get_anvil_accounts) |->
                          DocumentedWalletKey(get_anvil_accounts[i])])

InitBroadcast ==
  /\ \/ /\ adapter = FoundryAdapter_new
        /\ to_string_form = "Display"
     \/ /\ adapter = [FoundryAdapter_new EXCEPT !.known_wallets = DocumentedKnownWallets]
        /\ to_string_form = "LowerHex"
  /\ InitRequest
  /\ InitCall
  /\ InitQuery
  /\ ncalls = 0
  /\ InitAside

NextBroadcast ==
  \/ Next
  \/ SignChainIdReply \/ SendTransactionReply \/ ReceiptReply
  \/ GetBalanceReply

SpecBroadcast == InitBroadcast /\ [][NextBroadcast]_vars

\* send_eth alone, with every awaited node round-trip eventually returning.
NextSend ==
  \/ WithGasCap \/ WithExpectedChainId
  \/ FromSendIn
  \/ SendEth \/ ChainIdReply \/ EstimateReply \/ CallReply
  \/ SignChainIdReply \/ SendTransactionReply \/ ReceiptReply
  \/ Finish

SpecSendLive ==
  /\ InitBroadcast /\ [][NextSend]_vars
  /\ WF_vars(ChainIdReply) /\ WF_vars(EstimateReply) /\ WF_vars(CallReply)
  /\ WF_vars(SignChainIdReply) /\ WF_vars(SendTransactionReply) /\ WF_vars(ReceiptReply)

(***************************************************************************)
(* Concurrent calls on one adapter.  The server holds the adapter in an    *)
(* Arc and every request handler calls it through &self; a call runs until *)
(* it awaits the node, where the runtime may suspend it and run another.   *)
(* The variables of the call in progress are the running call's locals;    *)
(* parked holds the locals of the suspended ones.                          *)
(***************************************************************************)
\* The adapters the server may have been started with.
SharedAdapters(known_wallets) ==
  {[FoundryAdapter_new EXCEPT !.known_wallets = known_wallets, !.expected_chain_id = id] :
     id \in {None, Some(1)}}

InitConcurrent ==
  /\ \/ /\ adapter \in SharedAdapters(FoundryAdapter_new.known_wallets)
        /\ to_string_form = "Display"
     \/ /\ adapter \in SharedAdapters(DocumentedKnownWallets)
        /\ to_string_form = "LowerHex"
  /\ shared = Some(adapter)
  /\ parked = EmptyBag
  /\ InitRequest /\ InitCall /\ InitQuery
  /\ ncalls = 0
  /\ InitAddress /\ InitCli /\ InitCache /\ InitLookup /\ InitSessions

\* What the calls on the adapter never touch.
asideOfCalls == <<addressVars, cliVars, cacheVars, lookupVars, sessionVars>>

\* The locals of the running call.
Locals ==
  [build_result |-> build_result, req |-> req, origin |-> origin,
   pc |-> pc, trace |-> trace, typed |-> typed, est |-> est, wallet |-> wallet,
   tx_hash |-> tx_hash, outcome |-> outcome,
   query |-> query, qpc |-> qpc, qtrace |-> qtrace, target |-> target,
   qresult |-> qresult]

\* No call is running.
NoneRunning ==
  /\ pc = "idle" /\ qpc = "idle" /\ req = None /\ build_result = None
  /\ builder = SendRequestBuilder_default /\ called = {}

\* Another request may arrive.
Arrival == NoneRunning /\ ncalls + BagCardinality(parked) < MaxCalls

\* The requests and node replies the concurrent calls are run with.
ConcurrentSendIns ==
  {in \in SendIns : in.fork_block = None /\ in.simulate # None}

ConcurrentWho == {from_address(ANVIL_ACCOUNT_0), from_ens(AliceEth)}

OneReceipt == [status |-> Some(1), gas_used |-> Some(21000), transaction_hash |-> HashA]

AllowedReply(step) ==
  \/ step.val = None
  \/ CASE step.op = "estimate_gas" -> step.val[1] \in {21000, DEFAULT_GAS_CAP + 1}
       [] step.op = "receipt" -> step.val[1] \in {None, Some(OneReceipt)}
       [] step.op = "get_balance" -> step.val[1] \in {0, 7}
       [] OTHER -> TRUE

AllowedReplies ==
  /\ \A i \in DOMAIN trace : AllowedReply(trace[i])
  /\ \A i \in DOMAIN qtrace : AllowedReply(qtrace[i])

\* A transfer request arrives at /send.
SubmitSend ==
  /\ Arrival
  /\ \E in \in ConcurrentSendIns :
       Constructed(SendIn_try_into(in), "SendIn", in.simulate # None)
  /\ UNCHANGED <<adapter, called, callVars, ncalls, queryVars, to_string_form, asideVars>>

\* A balance request arrives at /balance.
SubmitBalance ==
  /\ Arrival
  /\ GetBalance
  /\ query'[1].input \in ConcurrentWho

\* The running call awaits the node and is suspended.
Park ==
  /\ pc \notin {"idle", "done"} \/ qpc \notin {"idle", "done"}
  /\ parked' = parked (+) SetToBag({Locals})
  /\ ResetRequest
  /\ pc' = "idle" /\ trace' = << >> /\ typed' = None /\ est' = None
  /\ wallet' = None /\ tx_hash' = None /\ outcome' = None
  /\ query' = None /\ qpc' = "idle" /\ qtrace' = << >> /\ target' = None
  /\ qresult' = None
  /\ UNCHANGED <<adapter, ncalls, to_string_form, shared, asideOfCalls>>

\* A suspended call is run again.
Resume ==
  /\ NoneRunning
  /\ \E l \in BagToSet(parked) :
       /\ parked' = parked (-) SetToBag({l})
       /\ build_result' = l.build_result /\ req' = l.req /\ origin' = l.origin
       /\ pc' = l.pc /\ trace' = l.trace /\ typed' = l.typed /\ est' = l.est
       /\ wallet' = l.wallet /\ tx_hash' = l.tx_hash /\ outcome' = l.outcome
       /\ query' = l.query /\ qpc' = l.qpc /\ qtrace' = l.qtrace
       /\ target' = l.target /\ qresult' = l.qresult
  /\ UNCHANGED <<adapter, builder, called, ncalls, to_string_form, shared, asideOfCalls>>

NextConcurrent ==
  \/ SubmitSend \/ SubmitBalance
  \/ Park \/ Resume
  \/ SendEth
  \/ (ChainIdReply /\ AllowedReplies')
  \/ (EstimateReply /\ AllowedReplies')
  \/ CallReply
  \/ (SignChainIdReply /\ AllowedReplies')
  \/ SendTransactionReply
  \/ (ReceiptReply /\ AllowedReplies')
  \/ (ResolveNameReply /\ AllowedReplies')
  \/ (GetBalanceReply /\ AllowedReplies')
  \/ Finish \/ FinishQuery

\* The node's answers to one call, in the order the call received them.
IsAnswer(step) ==
  /\ step.op \in {"get_chainid", "estimate_gas", "call", "send_transaction", "receipt",
                  "resolve_name", "get_balance"}
  /\ step.res # "pending"

AnswerOf(step) == IF step.res = "ok" THEN Ok(step.val[1]) ELSE Err("ProviderError")

Answers(t) ==
  LET s == SelectSeq(t, IsAnswer) IN [i \in 1..Len(s) |-> AnswerOf(s[i])]

\* send_eth (lines 103-142) run alone on adapter a with request r, the node
\* answering rs: Some(outcome), or None while a further answer is awaited.
send_eth_alone(a, r, rs) ==
  LET g == IF a.expected_chain_id # None THEN 1 ELSE 0 IN
    IF g = 1 /\ Len(rs) < 1 THEN None
    ELSE IF g = 1 /\ ~rs[1].ok THEN Some(ProviderError)
    ELSE IF g = 1 /\ ChainIdDiffers(rs[1].v, a.expected_chain_id[1])
      THEN Some(ChainIdMismatch(rs[1].v, a.expected_chain_id[1]))
    ELSE IF ~EthAddress_from_str(r.from).ok THEN Some(AddrParse(r.from))
    ELSE IF ~EthAddress_from_str(r.to).ok THEN Some(AddrParse(r.to))
    ELSE IF ~parse_ether(r.amount_eth).ok THEN Some(OtherError)
    ELSE IF Len(rs) < g + 1 THEN None
    ELSE IF ~rs[g + 1].ok THEN Some(ProviderError)
    ELSE IF ExceedsGasCap(rs[g + 1].v, a.gas_cap)
      THEN Some(GasCapExceeded(rs[g + 1].v, a.gas_cap))
    ELSE IF Len(rs) < g + 2 THEN None
    ELSE IF ~rs[g + 2].ok THEN Some(ProviderError)
    ELSE IF r.simulate THEN Some(SimulatedResult(rs[g + 1].v))
    ELSE IF LookupWallet(a.known_wallets, r.from) = None THEN Some(MissingLocalKey(r.from))
    ELSE IF Len(rs) < g + 3 THEN None
    ELSE IF ~rs[g + 3].ok THEN Some(ProviderError)
    ELSE IF Len(rs) < g + 4 THEN None
    ELSE IF ~rs[g + 4].ok THEN Some(OtherError)
    ELSE IF Len(rs) < g + 5 THEN None
    ELSE IF ~rs[g + 5].ok THEN Some(ProviderError)
    ELSE IF rs[g + 5].v # None THEN Some(ReceiptResult(rs[g + 5].v[1]))
    ELSE Some(UnconfirmedResult(rs[g + 4].v, rs[g + 1].v))

\* get_balance (lines 66-84) run alone on who, the node answering rs.
get_balance_alone(who, rs) ==
  LET n == IF who.type = "Address" THEN 0 ELSE 1
      resolved == IF who.type = "Address" THEN resolve_address(who.value)
                  ELSE IF ~rs[1].ok THEN Err(ProviderError)
                  ELSE Ok(H160_to_string(rs[1].v))
  IN IF n = 1 /\ Len(rs) < 1 THEN None
     ELSE IF ~resolved.ok THEN Some(resolved)
     ELSE IF ~EthAddress_from_str(resolved.v).ok THEN Some(Err(AddrParse(resolved.v)))
     ELSE IF Len(rs) < n + 1 THEN None
     ELSE IF ~rs[n + 1].ok THEN Some(Err(ProviderError))
     ELSE Some(Ok(U256_to_string(rs[n + 1].v)))

SpecConcurrent == InitConcurrent /\ [][NextConcurrent]_vars

(***************************************************************************)
(* domain::Address: a wrapper of the string it was built from, with the    *)
(* derived equality (field by field).                                      *)
(***************************************************************************)
\* Address::new
Address_new(value) == [value |-> value]

\* #[derive(PartialEq, Eq)] on Address
Address_eq(a, b) == a.value = b.value

AddressStrings == KnownSenderStrings \cup {USDC_MAINNET, NotAnAddress}

\* Two Address values are built from strings.
AddressNew ==
  /\ lhs = None /\ rhs = None
  /\ \E a, b \in AddressStrings :
       /\ lhs' = Some(Address_new(a))
       /\ rhs' = Some(Address_new(b))
  /\ UNCHANGED <<equal, exceptAddress>>

\* lhs == rhs
AddressCompare ==
  /\ lhs # None /\ rhs # None /\ equal = None
  /\ equal' = Some(Address_eq(lhs[1], rhs[1]))
  /\ UNCHANGED <<lhs, rhs, exceptAddress>>

\* The values are dropped.
AddressDrop ==
  /\ equal # None
  /\ lhs' = None /\ rhs' = None /\ equal' = None
  /\ UNCHANGED exceptAddress

NextAddress == AddressNew \/ AddressCompare \/ AddressDrop

SpecAddress == Init /\ [][NextAddress]_vars

(***************************************************************************)
(* crates/baml_client main: the command line, the parsed intent, and the   *)
(* transfer posted to the server.                                          *)
(***************************************************************************)
\* Cli::parse: --dry-run is a flag, false when absent.
CliParse ==
  /\ cli = None
  /\ \E flag \in BOOLEAN : cli' = Some([dry_run |-> flag])
  /\ UNCHANGED <<intent, baml_function, posted, exceptCli>>

\* The ways the parser arrives at a BamlFunction::Send, each with its input.
Intents ==
  {[path |-> p, input |-> i] : p \in {"parser", "bindings", "tool"}, i \in JsonInputs}
    \cup {[path |-> p, input |-> i] : p \in {"fallback", "BamlTool"}, i \in SendIns}

SelectFunction(i) ==
  IF i.path = "parser" THEN Parser_send(i.input)
  ELSE IF i.path = "bindings" THEN validate_and_to_baml_function(i.input)
  ELSE IF i.path = "tool" THEN Tool_to_baml_function(i.input)
  ELSE IF i.path = "fallback"
    THEN Parser_fallback_send(i.input.from, i.input.to, i.input.amount_eth)
  ELSE BamlTool_send(i.input.from, i.input.to, i.input.amount_eth, i.input.simulate)

\* main, lines 87-98: the query is parsed into a function; here a Send.
CliParseQuery ==
  /\ cli # None /\ baml_function = None
  /\ \E i \in Intents :
       /\ SelectFunction(i).ok
       /\ intent' = Some(i)
       /\ baml_function' = Some(SelectFunction(i).v)
  /\ UNCHANGED <<cli, posted, exceptCli>>

\* Mutant of Override: --dry-run is honoured only for requests that simulate
\* anyway.
Override_and(dry_run, r) ==
  Builder_build(Builder_fork_block(Builder_simulate(Builder_amount_eth(Builder_to(
    Builder_from(SendRequestBuilder_default, r.from), r.to), r.amount_eth),
    dry_run /\ r.simulate), r.fork_block))

\* main, lines 127-134: the request rebuilt with --dry-run honoured.
Override(dry_run, r) ==
  Builder_build(Builder_fork_block(Builder_simulate(Builder_amount_eth(Builder_to(
    Builder_from(SendRequestBuilder_default, r.from), r.to), r.amount_eth),
    dry_run \/ r.simulate), r.fork_block))

\* McpClient::send, lines 109-115: the JSON body of the POST to /send.
SendBody(r) ==
  [from |-> r.from, to |-> r.to, amount_eth |-> r.amount_eth,
   simulate |-> r.simulate, fork_block |-> r.fork_block]

\* main, lines 125-135: the Send arm.
CliSend ==
  /\ baml_function # None /\ posted = None
  /\ LET req_overridden == Override(cli[1].dry_run, baml_function[1]) IN
       /\ req_overridden.ok
       /\ posted' = Some(SendBody(req_overridden.v))
  /\ UNCHANGED <<cli, intent, baml_function, exceptCli>>

NextCli == CliParse \/ CliParseQuery \/ CliSend

SpecCli == Init /\ [][NextCli]_vars

(***************************************************************************)
(* crates/foundry_adapter cache.rs: LruCache, the ABI half.                *)
(***************************************************************************)
\* LruCache::new(2, 3600) of test_lru_cache_basic; the time-to-live is
\* counted in ticks of cache_now.
CacheMaxSize == 2

CacheTtl == 2

MaxCacheNow == 3

CacheKeys == {"key1", "key2", "key3"}

AbiInputs == {[abi |-> "abi1", verified |-> TRUE], [abi |-> "abi2", verified |-> FALSE]}

CachedAbi(abi, verified, at) == [abi |-> abi, cached_at |-> at, verified |-> verified]

\* HashMap::remove and HashMap::insert
MapRemove(m, k) == [x \in (DOMAIN m) \ {k} |-> m[x]]

MapInsert(m, k, v) == [x \in (DOMAIN m) \cup {k} |-> IF x = k THEN v ELSE m[x]]

\* self.abis.keys().next(): the first key in the map's iteration order, which
\* for a HashMap is any of its keys.
KeysNext(m) == IF DOMAIN m = {} THEN {None} ELSE {Some(k) : k \in DOMAIN m}

\* LruCache::set_abi
SetAbi ==
  \E key \in CacheKeys, in \in AbiInputs :
    \E oldest_key \in (IF Cardinality(DOMAIN abis) >= CacheMaxSize
                         THEN KeysNext(abis) ELSE {None}) :
      LET kept == IF oldest_key = None THEN abis ELSE MapRemove(abis, oldest_key[1]) IN
        /\ abis' = MapInsert(kept, key, CachedAbi(in.abi, in.verified, cache_now))
        /\ last_set' = Some([key |-> key, before |-> abis, removed |-> oldest_key])
        /\ UNCHANGED <<cache_now, got_abi, exceptCache>>

\* LruCache::get_abi
GetAbi ==
  /\ \E key \in CacheKeys :
       got_abi' = Some([key |-> key,
                        result |-> IF key \in DOMAIN abis /\ cache_now - abis[key].cached_at < CacheTtl
                                     THEN Some(abis[key]) ELSE None])
  /\ UNCHANGED <<abis, cache_now, last_set, exceptCache>>

\* Time passes between two calls.
CacheTick ==
  /\ cache_now < MaxCacheNow
  /\ cache_now' = cache_now + 1
  /\ UNCHANGED <<abis, last_set, got_abi, exceptCache>>

NextCache == SetAbi \/ GetAbi \/ CacheTick

SpecCache == Init /\ [][NextCache]_vars

(***************************************************************************)
(* crates/mcp_server external_api.rs: TokenLookupClient.                   *)
(***************************************************************************)
UpperLetters ==
  <<"A","B","C","D","E","F","G","H","I","J","K","L","M","N","O","P","Q","R","S","T","U","V","W","X","Y","Z">>

LowerLetters ==
  <<"a","b","c","d","e","f","g","h","i","j","k","l","m","n","o","p","q","r","s","t","u","v","w","x","y","z">>

LetterIndex(letters, c) ==
  IF \E i \in 1..Len(letters) : letters[i] = c
    THEN CHOOSE i \in 1..Len(letters) : letters[i] = c
    ELSE 0

\* str::to_lowercase and str::to_uppercase on ASCII strings
to_lowercase(s) ==
  [i \in 1..Len(s) |->
     IF LetterIndex(UpperLetters, s[i]) = 0 THEN s[i]
     ELSE LowerLetters[LetterIndex(UpperLetters, s[i])]]

to_uppercase(s) ==
  [i \in 1..Len(s) |->
     IF LetterIndex(LowerLetters, s[i]) = 0 THEN s[i]
     ELSE UpperLetters[LetterIndex(LowerLetters, s[i])]]

\* TokenLookupClient::cache_key
cache_key(symbol, chain) == to_lowercase(chain) \o <<":", ":">> \o to_uppercase(symbol)

\* TokenLookupClient::new(base_url, cache_ttl_seconds); the time-to-live is
\* counted in ticks of lookup_now.
LookupCacheTtl == 2

MaxLookupNow == 2

MaxLookups == 2

Symbols == {<<"U","S","D","C">>, <<"u","s","d","c">>, <<"F","O","O">>}

Chains == {<<"e","t","h">>, <<"E","t","h">>}

TokenInfo(address, symbol, name, chain) ==
  [address |-> address, symbol |-> symbol, name |-> name, chain |-> chain]

\* The JSON objects a successful response carries: each field is Some(string)
\* or absent.
JsonBody(address, chain) ==
  [address |-> address, symbol |-> Some(<<"U","S","D","C">>),
   name |-> Some(<<"U","S","D">>), chain |-> chain]

JsonBodies ==
  {JsonBody(Some(USDC_MAINNET), Some(<<"e","t","h">>)),
   JsonBody(Some(ZeroAddress), None),
   JsonBody(None, Some(<<"e","t","h">>))}

\* What one request can come back with.
HttpResponses ==
  {[kind |-> "success", body |-> Some(b)] : b \in JsonBodies}
    \cup {[kind |-> "success", body |-> None],
          [kind |-> "status", code |-> 429], [kind |-> "status", code |-> 404],
          [kind |-> "error"]}

\* lines 62-70: the token of a parsed body, if all fields are there.
TokenOf(v, chain) ==
  LET chain_out == IF v.chain # None THEN v.chain ELSE Some(chain) IN
    IF v.address # None /\ v.symbol # None /\ v.name # None /\ chain_out # None
      THEN Some(TokenInfo(v.address[1], v.symbol[1], v.name[1], chain_out[1]))
      ELSE None

\* lines 37-44: the cache check of a lookup; a hit returns at once.
LookupBySymbol ==
  /\ lookup_pc = "idle" /\ nlookups < MaxLookups
  /\ \E symbol \in Symbols, chain \in Chains :
       LET key == cache_key(symbol, chain)
           hit == /\ key \in DOMAIN lookup_cache
                  /\ lookup_now - lookup_cache[key].ts < LookupCacheTtl IN
         /\ lookup' = Some([symbol |-> symbol, chain |-> chain, key |-> key,
                            started |-> lookup_now,
                            prior |-> IF <<symbol, chain>> \in DOMAIN fetched
                                        THEN Some(fetched[<<symbol, chain>>]) ELSE None,
                            cache_before |-> lookup_cache])
         /\ lookup_pc' = IF hit THEN "done" ELSE "sending"
         /\ lookup_result' = IF hit THEN Some(Ok(Some(lookup_cache[key].info))) ELSE None
  /\ attempt' = 0 /\ responses' = << >>
  /\ nlookups' = nlookups + 1
  /\ UNCHANGED <<lookup_cache, lookup_now, fetched, exceptLookup>>

\* Mutant of LookupReturn: the token is returned and never cached.
LookupReturn_uncached(info) ==
  /\ lookup_pc' = "done"
  /\ lookup_result' = Some(Ok(info))
  /\ IF info # None
       THEN /\ lookup_cache' = lookup_cache
            /\ fetched' = MapInsert(fetched, <<lookup[1].symbol, lookup[1].chain>>,
                                  [info |-> info[1], at |-> lookup_now])
       ELSE UNCHANGED <<lookup_cache, fetched>>

\* lines 86-90: the result is cached if it is a token, and returned.
LookupReturn(info) ==
  /\ lookup_pc' = "done"
  /\ lookup_result' = Some(Ok(info))
  /\ IF info # None
       THEN /\ lookup_cache' = MapInsert(lookup_cache, lookup[1].key,
                                         [info |-> info[1], ts |-> lookup_now])
            /\ fetched' = MapInsert(fetched, <<lookup[1].symbol, lookup[1].chain>>,
                                  [info |-> info[1], at |-> lookup_now])
       ELSE UNCHANGED <<lookup_cache, fetched>>

\* Mutant of HttpReply: a 429 is retried once more than the loop allows.
HttpReply_retry_429 ==
  /\ lookup_pc = "sending"
  /\ \E resp \in HttpResponses :
       LET n == attempt + 1 IN
         /\ attempt' = n
         /\ responses' = Append(responses, resp)
         /\ IF resp.kind = "success"
              THEN IF resp.body = None
                     THEN /\ lookup_pc' = "done"
                          /\ lookup_result' = Some(Err("json"))
                          /\ UNCHANGED <<lookup_cache, fetched>>
                     ELSE LookupReturn(TokenOf(resp.body[1], lookup[1].chain))
            ELSE IF resp.kind = "status"
              THEN IF resp.code = 429 /\ n < 4
                     THEN UNCHANGED <<lookup_pc, lookup_result, lookup_cache, fetched>>
                     ELSE LookupReturn(None)
            ELSE IF n < 2
              THEN UNCHANGED <<lookup_pc, lookup_result, lookup_cache, fetched>>
              ELSE LookupReturn(None)
  /\ UNCHANGED <<lookup, lookup_now, nlookups, exceptLookup>>

\* lines 54-84: one turn of the loop: a request is sent and its response
\* handled.
HttpReply ==
  /\ lookup_pc = "sending"
  /\ \E resp \in HttpResponses :
       LET n == attempt + 1 IN
         /\ attempt' = n
         /\ responses' = Append(responses, resp)
         /\ IF resp.kind = "success"
              THEN IF resp.body = None
                     THEN /\ lookup_pc' = "done"
                          /\ lookup_result' = Some(Err("json"))
                          /\ UNCHANGED <<lookup_cache, fetched>>
                     ELSE LookupReturn(TokenOf(resp.body[1], lookup[1].chain))
            ELSE IF resp.kind = "status"
              THEN IF resp.code = 429 /\ n < 3
                     THEN UNCHANGED <<lookup_pc, lookup_result, lookup_cache, fetched>>
                     ELSE LookupReturn(None)
            ELSE IF n < 2
              THEN UNCHANGED <<lookup_pc, lookup_result, lookup_cache, fetched>>
              ELSE LookupReturn(None)
  /\ UNCHANGED <<lookup, lookup_now, nlookups, exceptLookup>>

\* The caller takes the result and the call's locals are dropped; the client
\* is free for the next lookup.
LookupFinish ==
  /\ lookup_pc = "done"
  /\ lookup_pc' = "idle"
  /\ lookup' = None /\ attempt' = 0 /\ responses' = << >> /\ lookup_result' = None
  /\ UNCHANGED <<lookup_cache, lookup_now, fetched, nlookups, exceptLookup>>

\* Time passes, between lookups and while a request is in flight.
LookupTick ==
  /\ lookup_now < MaxLookupNow
  /\ lookup_now' = lookup_now + 1
  /\ UNCHANGED <<lookup_cache, lookup, lookup_pc, attempt, responses, lookup_result,
                 fetched, nlookups, exceptLookup>>

NextLookup == LookupBySymbol \/ HttpReply \/ LookupFinish \/ LookupTick

SpecLookup == Init /\ [][NextLookup]_vars

\* Every request is answered or fails.
SpecLookupLive == SpecLookup /\ WF_vars(HttpReply)

(***************************************************************************)
(* crates/mcp_server sessions.rs: SessionStore.  Every step below runs     *)
(* under the store's write lock (read lock for get_partial_intent); get    *)
(* and append take it twice, once in evict_expired and once for the rest.  *)
(***************************************************************************)
\* SessionStore::new(ttl_seconds, max_turns_per_session, max_sessions); the
\* time-to-live is counted in ticks of session_now.
SessionTtl == 1

MaxTurnsPerSession == 2

MaxSessions == 2

MaxSessionNow == 2

MaxSessionOps == 3

ChatTurn(role, content, at) == [role |-> role, content |-> content, at |-> at]

SessionData(turns, partial_intent, updated_at) ==
  [turns |-> turns, partial_intent |-> partial_intent, updated_at |-> updated_at]

\* HashMap::entry(k).or_insert(v)
OrInsert(m, k, v) == IF k \in DOMAIN m THEN m ELSE MapInsert(m, k, v)

\* Vec::drain(0..n): the vector without its first n elements
Drain(v, n) == SubSeq(v, n + 1, Len(v))

\* SessionStore::evict_expired
evict_expired(map, now) ==
  [id \in {k \in DOMAIN map : now - map[k].updated_at <= SessionTtl} |-> map[id]]

SessionOpStart(t) ==
  /\ session_pc[t].op = "idle"
  /\ nsessionops < MaxSessionOps
  /\ nsessionops' = nsessionops + 1

\* get, line 31
Get(t) ==
  /\ SessionOpStart(t)
  /\ sessions' = evict_expired(sessions, session_now)
  /\ \E id \in SessionIds :
       session_pc' = [session_pc EXCEPT ![t] = [op |-> "get", session_id |-> id]]
  /\ UNCHANGED <<session_now, session_ret, appended, last_append, exceptSessions>>

\* get, lines 32-35
GetEntry(t) ==
  /\ session_pc[t].op = "get"
  /\ LET map == OrInsert(sessions, session_pc[t].session_id,
                         SessionData(<< >>, None, session_now)) IN
       /\ sessions' = map
       /\ session_ret' = Some(map[session_pc[t].session_id])
  /\ session_pc' = [session_pc EXCEPT ![t] = [op |-> "idle"]]
  /\ UNCHANGED <<session_now, appended, last_append, nsessionops, exceptSessions>>

\* append, line 39
AppendTurn(t) ==
  /\ SessionOpStart(t)
  /\ sessions' = evict_expired(sessions, session_now)
  /\ \E id \in SessionIds, role \in Roles, content \in Contents :
       session_pc' = [session_pc EXCEPT ![t] =
                        [op |-> "append", session_id |-> id, role |-> role,
                         content |-> content]]
  /\ UNCHANGED <<session_now, session_ret, appended, last_append, exceptSessions>>

\* Mutant of Truncate: the newest turns are the ones dropped.
Truncate_newest(turns) ==
  IF Len(turns) > MaxTurnsPerSession
    THEN SubSeq(turns, 1, MaxTurnsPerSession)
    ELSE turns

\* append, line 47
Truncate(turns) ==
  IF Len(turns) > MaxTurnsPerSession
    THEN Drain(turns, Len(turns) - MaxTurnsPerSession)
    ELSE turns

\* append, lines 40-48
AppendEntry(t) ==
  /\ session_pc[t].op = "append"
  /\ LET id == session_pc[t].session_id
         turn == ChatTurn(session_pc[t].role, session_pc[t].content, session_now) IN
       \E k \in (IF Cardinality(DOMAIN sessions) >= MaxSessions /\ id \notin DOMAIN sessions
                   THEN KeysNext(sessions) ELSE {None}) :
         LET kept == IF k = None THEN sessions ELSE MapRemove(sessions, k[1])
             map == OrInsert(kept, id, SessionData(<< >>, None, session_now))
             turns == Truncate(Append(map[id].turns, turn)) IN
           /\ sessions' = MapInsert(map, id,
                                    SessionData(turns, map[id].partial_intent, session_now))
           /\ appended' = [appended EXCEPT ![id] = Append(@, turn)]
           /\ last_append' = Some([session_id |-> id, before |-> map[id].turns,
                                   turn |-> turn, after |-> turns])
  /\ session_pc' = [session_pc EXCEPT ![t] = [op |-> "idle"]]
  /\ UNCHANGED <<session_now, session_ret, nsessionops, exceptSessions>>

\* SessionStore::set_partial_intent
SetPartialIntent(t) ==
  /\ SessionOpStart(t)
  /\ \E id \in SessionIds, value \in PartialIntents :
       LET map == OrInsert(sessions, id, SessionData(<< >>, None, session_now)) IN
         sessions' = MapInsert(map, id, SessionData(map[id].turns, Some(value), session_now))
  /\ UNCHANGED <<session_now, session_pc, session_ret, appended, last_append,
                 exceptSessions>>

\* SessionStore::get_partial_intent
GetPartialIntent(t) ==
  /\ SessionOpStart(t)
  /\ \E id \in SessionIds :
       session_ret' = Some(IF id \in DOMAIN sessions THEN sessions[id].partial_intent
                           ELSE None)
  /\ UNCHANGED <<sessions, session_now, session_pc, appended, last_append,
                 exceptSessions>>

\* Time passes.
SessionTick ==
  /\ session_now < MaxSessionNow
  /\ session_now' = session_now + 1
  /\ UNCHANGED <<sessions, session_pc, session_ret, appended, last_append, nsessionops,
                 exceptSessions>>

NextSessions ==
  \/ \E t \in SessionThreads :
       \/ Get(t) \/ GetEntry(t)
       \/ AppendTurn(t) \/ AppendEntry(t)
       \/ SetPartialIntent(t) \/ GetPartialIntent(t)
  \/ SessionTick

SpecSessions == Init /\ [][NextSessions]_vars

(***************************************************************************)
(* Properties.                                                             *)
(***************************************************************************)
HasStep(op) == \E i \in DOMAIN trace : trace[i].op = op

StepOk(op) == \E i \in DOMAIN trace : trace[i].op = op /\ trace[i].res = "ok"

\* The value the node replied to the (first) call of the given kind.
NodeReply(op) ==
  trace[CHOOSE i \in DOMAIN trace :
          trace[i].op = op /\ \A j \in 1..(i - 1) : trace[j].op # op].val[1]

\* No step of the broadcast branch was taken: no registry read, no chain id
\* fetched for signing, nothing signed or submitted, no receipt awaited.
NoBroadcastStep ==
  /\ ~HasStep("wallet_lookup") /\ ~HasStep("send_transaction") /\ ~HasStep("receipt")
  /\ \A i \in DOMAIN trace : trace[i].op = "get_chainid" => i = 1
  /\ wallet = None /\ tx_hash = None

\* C1: a send_eth call with simulate=true reads no registry entry and signs and
\* submits nothing; it never ends in MissingLocalKey; and when it succeeds its
\* result has an empty hash, the node's estimate as gas_used and no status.
C1_SimulateOnlyTouchesNoKey ==
  (pc # "idle" /\ req[1].simulate) =>
    /\ NoBroadcastStep
    /\ outcome # None => outcome[1].kind # "MissingLocalKey"
    /\ (outcome # None /\ outcome[1].kind = "TxResult") =>
         outcome[1] = [kind |-> "TxResult", tx_hash |-> << >>,
                       gas_used |-> Some(NodeReply("estimate_gas")), status |-> None]

C1_Witness ==
  /\ pc = "done" /\ req[1].simulate
  /\ outcome[1].kind = "TxResult" /\ StepOk("call")

\* C2: send_eth fails with GasCapExceeded{estimated, cap} exactly when the
\* node's estimate is strictly above the configured cap, and then makes no
\* simulation call and takes no step of the broadcast branch; an estimate equal
\* to the cap goes on to the simulation call.
C2_GasCapExceededIffAboveCap ==
  /\ StepOk("estimate_gas") =>
       IF NodeReply("estimate_gas") > adapter.gas_cap
         THEN /\ outcome = Some([kind |-> "GasCapExceeded",
                                 estimated |-> NodeReply("estimate_gas"),
                                 cap |-> adapter.gas_cap])
              /\ ~HasStep("call")
              /\ NoBroadcastStep
         ELSE /\ HasStep("call")
              /\ outcome # None => outcome[1].kind # "GasCapExceeded"
  /\ (outcome # None /\ outcome[1].kind = "GasCapExceeded") => StepOk("estimate_gas")

C2_Witness ==
  /\ outcome # None /\ outcome[1].kind = "GasCapExceeded"
  /\ outcome[1].estimated = adapter.gas_cap + 1

\* C3: with an expected chain id configured and a different live chain id,
\* send_eth fails with ChainIdMismatch{got = live, expected = configured} and
\* makes no gas-estimation call, no simulation call and no submission, whatever
\* the request's simulate flag.
C3_ChainIdMismatchAbortsFirst ==
  (/\ pc # "idle" /\ adapter.expected_chain_id # None
   /\ trace[1].res = "ok" /\ trace[1].val[1] # adapter.expected_chain_id[1]) =>
    /\ trace[1].op = "get_chainid"
    /\ outcome = Some([kind |-> "ChainIdMismatch", got |-> trace[1].val[1],
                       expected |-> adapter.expected_chain_id[1]])
    /\ ~HasStep("estimate_gas") /\ ~HasStep("call") /\ ~HasStep("send_transaction")
    /\ typed = None

C3_Witness ==
  /\ outcome # None /\ outcome[1].kind = "ChainIdMismatch"
  /\ ~req[1].simulate

StepIndex(op) == CHOOSE i \in DOMAIN trace : trace[i].op = op

ExpectedSteps ==
  (IF adapter.expected_chain_id # None
     THEN <<"get_chainid", "chain_id_guard">> ELSE << >>)
  \o <<"parse_from", "parse_to", "parse_amount", "estimate_gas", "gas_cap_check", "call">>
  \o (IF req[1].simulate
        THEN << >>
        ELSE <<"wallet_lookup", "get_chainid", "send_transaction", "receipt">>)

C6_DefaultsToSimulate ==
  (req # None /\ ~origin[1].explicit) => req[1].simulate = TRUE

C6_Witness ==
  /\ req # None /\ ~origin[1].explicit
  /\ origin[1].path = "SendIn" /\ req[1].fork_block # None

RequiredFields == {"from", "to", "amount_eth"}

\* C7: SendRequestBuilder::build fails exactly when from, to or amount_eth was
\* never set, whatever other builder methods were called and in what order.
C7_BuildRequiresThreeFields ==
  (build_result # None /\ origin[1].path = "builder") =>
    (build_result[1].ok <=> RequiredFields \subseteq called)

C7_Witness ==
  /\ build_result # None /\ origin[1].path = "builder"
  /\ ~build_result[1].ok
  /\ called = {"from", "amount_eth", "simulate", "fork_block"}

\* C8: a broadcast request (simulate=false) whose sender has no registry entry,
\* with the identity check, the estimate and the simulation succeeding, ends
\* in MissingLocalKey carrying the sender address as given, after the gas
\* estimation and the simulation call and without a chain id fetch for
\* signing or a submission.
C8_MissingLocalKeyAfterSimulation ==
  (/\ pc # "idle" /\ ~req[1].simulate
   /\ normalize(req[1].from) \notin DOMAIN adapter.known_wallets
   /\ StepOk("call")) =>
    /\ outcome = Some([kind |-> "MissingLocalKey", addr |-> req[1].from])
    /\ StepOk("estimate_gas") /\ StepOk("gas_cap_check")
    /\ trace[Len(trace)] = [op |-> "wallet_lookup", res |-> "err", val |-> None]
    /\ ~HasStep("send_transaction") /\ ~HasStep("receipt")
    /\ \A i \in DOMAIN trace : trace[i].op = "get_chainid" => i = 1
    /\ wallet = None /\ tx_hash = None

C8_Witness ==
  /\ outcome # None /\ outcome[1].kind = "MissingLocalKey"
  /\ req[1].from = USDC_MAINNET
  /\ adapter.expected_chain_id # None

\* C9: a broadcast request whose sender is the full 42-character address of a
\* known test account, in any letter case, finds its credential in the
\* registry and does not end in MissingLocalKey.
C9_KnownSenderHasCredential ==
  (pc # "idle" /\ ~req[1].simulate /\ req[1].from \in KnownSenderStrings) =>
    /\ HasStep("wallet_lookup") => StepOk("wallet_lookup")
    /\ outcome # None => outcome[1].kind # "MissingLocalKey"

SendNodeOps == {"get_chainid", "estimate_gas", "call", "send_transaction", "receipt"}

\* C12: a send_eth call whose amount_eth is a malformed decimal string (sender
\* and recipient being well-formed) fails with the amount's parse error and
\* has made no node call, whatever the adapter's configuration.
C12_MalformedAmountFailsBeforeNetwork ==
  (/\ pc # "idle"
   /\ EthAddress_from_str(req[1].from).ok /\ EthAddress_from_str(req[1].to).ok
   /\ ~parse_ether(req[1].amount_eth).ok) =>
    /\ pc = "done"
    /\ outcome = Some([kind |-> "Other"])
    /\ \A i \in DOMAIN trace : trace[i].op \notin SendNodeOps

HasQStep(op) == \E i \in DOMAIN qtrace : qtrace[i].op = op

QStepOk(op) == \E i \in DOMAIN qtrace : qtrace[i].op = op /\ qtrace[i].res = "ok"

\* The steps of the read queries that are node round-trips.
QueryNodeOps == {"resolve_name", "get_balance", "get_code", "balanceOf"}

ReadOps == {"get_balance", "get_code_len", "erc20_balance_of"}

\* The addresses of the running read query that are given as hex strings.
QueryAddresses ==
  IF query[1].op = "get_code_len" THEN {query[1].addr}
  ELSE IF query[1].op = "erc20_balance_of" THEN {query[1].token, query[1].holder}
  ELSE IF query[1].input.type = "Address" THEN {query[1].input.value}
  ELSE {}

\* C13: a read query (get_balance on an Address, get_code_len,
\* erc20_balance_of) given a malformed address (token or holder included)
\* fails with AddrParse carrying a malformed address of the request, and no
\* node call is issued.
C13_MalformedAddressFailsBeforeNetwork ==
  (/\ query # None /\ query[1].op \in ReadOps
   /\ \E a \in QueryAddresses : ~EthAddress_from_str(a).ok) =>
    /\ qpc = "done"
    /\ ~qresult[1].ok /\ qresult[1].e.kind = "AddrParse"
    /\ qresult[1].e.addr \in {a \in QueryAddresses : ~EthAddress_from_str(a).ok}
    /\ \A i \in DOMAIN qtrace : qtrace[i].op \notin QueryNodeOps
    /\ target = None

C13_Witness ==
  /\ query # None /\ query[1].op = "erc20_balance_of"
  /\ EthAddress_from_str(query[1].token).ok
  /\ qresult = Some([ok |-> FALSE, e |-> [kind |-> "AddrParse", addr |-> NotAnAddress]])

\* C14: resolve_address_or_ens on the Address variant of a valid hex address
\* succeeds without a node call, and resolving the returned Address again
\* succeeds with the same Address.
C14_ResolveIdempotent ==
  (/\ qpc = "done" /\ query[1].op = "resolve_address_or_ens"
   /\ query[1].input.type = "Address"
   /\ EthAddress_from_str(query[1].input.value).ok) =>
    /\ qresult[1].ok
    /\ \A i \in DOMAIN qtrace : qtrace[i].op \notin QueryNodeOps
    /\ resolve_address(qresult[1].v) = qresult[1]

\* C15: get_balance on a valid hex address or on a name that resolves issues
\* one balance call, for the resolved address, and when that call succeeds
\* returns the node's balance as its decimal string; it is never an error
\* then.
C15_BalanceOfResolvedIdentity ==
  (/\ query # None /\ query[1].op = "get_balance"
   /\ \/ /\ query[1].input.type = "Address"
         /\ EthAddress_from_str(query[1].input.value).ok
      \/ QStepOk("resolve_name")) =>
    /\ HasQStep("get_balance")
    /\ target = Some(<<IF query[1].input.type = "Address"
                         THEN EthAddress_from_str(query[1].input.value).v
                         ELSE qtrace[1].val[1]>>)
    /\ Cardinality({i \in DOMAIN qtrace : qtrace[i].op = "get_balance"}) = 1
    /\ QStepOk("get_balance") =>
         /\ qresult # None /\ qresult[1].ok
         /\ qresult[1].v = U256_to_string(qtrace[Len(qtrace)].val[1])

\* C16: get_balance, get_code_len and erc20_balance_of never fetch the node's
\* chain id and never return ChainIdMismatch, whatever expected chain id is
\* configured.
C16_ReadQueriesSkipIdentityGuard ==
  (query # None /\ query[1].op \in ReadOps) =>
    /\ qpc # "get_chainid"
    /\ ~HasQStep("get_chainid") /\ ~HasQStep("chain_id_guard")
    /\ (qresult # None /\ ~qresult[1].ok) => qresult[1].e.kind # "ChainIdMismatch"

C16_Witness ==
  /\ adapter.expected_chain_id = Some(999)
  /\ query # None /\ query[1].op = "erc20_balance_of"
  /\ qresult # None /\ qresult[1].ok

\* How often a step occurs in a trace.
Count(t, op) == Cardinality({i \in DOMAIN t : t[i].op = op})

\* The error a failed node call ends its call with.
ErrorOf(op) ==
  IF op \in {"send_transaction", "balanceOf"} THEN [kind |-> "Other"]
  ELSE [kind |-> "Provider"]

C18_FailedSimulationTouchesNoKey ==
  (\E i \in DOMAIN trace : trace[i].op = "call" /\ trace[i].res = "err") =>
    /\ pc = "done"
    /\ outcome = Some([kind |-> "Provider"])
    /\ trace[Len(trace)].op = "call"
    /\ NoBroadcastStep

C18_Witness ==
  /\ pc = "done" /\ trace[Len(trace)].op = "call" /\ trace[Len(trace)].res = "err"
  /\ ~req[1].simulate /\ adapter.expected_chain_id # None

C20_ConfigurationReadOnly ==
  /\ [](adapter.known_wallets = FoundryAdapter_new.known_wallets)
  /\ [][/\ adapter'.known_wallets = adapter.known_wallets
        /\ adapter' # adapter =>
             /\ pc = "idle" /\ qpc = "idle" /\ ncalls = 0 /\ req = None
             /\ \/ adapter' = [adapter EXCEPT !.gas_cap = adapter'.gas_cap]
                \/ adapter' = [adapter EXCEPT
                                 !.expected_chain_id = adapter'.expected_chain_id]]_vars

C20_Witness ==
  /\ ncalls = MaxCalls
  /\ adapter.gas_cap = 1000 /\ adapter.expected_chain_id = Some(999)

\* C22: two Address values built from hex strings that differ only in letter
\* case compare equal.
C22_AddressEqualityIgnoresCase ==
  (/\ equal # None
   /\ EthAddress_from_str(lhs[1].value).ok /\ EthAddress_from_str(rhs[1].value).ok
   /\ normalize(lhs[1].value) = normalize(rhs[1].value)) =>
    equal = Some(TRUE)

\* C23: with --dry-run the transfer the client posts has simulate = true
\* whatever the parsed intent carried; without it the parsed request's
\* simulate value is posted unchanged.  The other fields are the parsed ones.
C23_DryRunForcesSimulate ==
  posted # None =>
    /\ posted[1].simulate = (IF cli[1].dry_run THEN TRUE ELSE baml_function[1].simulate)
    /\ posted[1].from = baml_function[1].from /\ posted[1].to = baml_function[1].to
    /\ posted[1].amount_eth = baml_function[1].amount_eth
    /\ posted[1].fork_block = baml_function[1].fork_block

C23_Witness ==
  /\ posted # None /\ cli[1].dry_run /\ ~baml_function[1].simulate
  /\ posted[1].simulate

\* C24: when the cache holds max_size entries and set_abi is called with a new
\* key, the entry removed is the one inserted earliest, and every other entry
\* and the new one are in the cache afterwards.
C24_EvictsOldest ==
  (/\ last_set # None
   /\ Cardinality(DOMAIN last_set[1].before) >= CacheMaxSize
   /\ last_set[1].key \notin DOMAIN last_set[1].before) =>
    LET before == last_set[1].before
        removed == last_set[1].removed IN
      /\ removed # None
      /\ \A k \in DOMAIN before : before[removed[1]].cached_at <= before[k].cached_at
      /\ DOMAIN abis = ((DOMAIN before) \ {removed[1]}) \cup {last_set[1].key}

\* C25: after a lookup for (symbol, chain) fetched a token, a further lookup
\* for the same pair on the same client, started while that token's time to
\* live lasts, returns the same token and sends no HTTP request; a lookup that
\* found nothing leaves the cache as it was.
C25_RepeatServedFromCache ==
  lookup_pc = "done" =>
    /\ (/\ lookup[1].prior # None
        /\ lookup[1].started - lookup[1].prior[1].at < LookupCacheTtl) =>
         /\ lookup_result = Some(Ok(Some(lookup[1].prior[1].info)))
         /\ responses = << >>
    /\ (lookup_result = Some(Ok(None)) \/ ~lookup_result[1].ok) =>
         lookup_cache = lookup[1].cache_before

C25_Witness ==
  /\ lookup_pc = "done" /\ lookup[1].prior # None
  /\ lookup[1].started - lookup[1].prior[1].at < LookupCacheTtl
  /\ lookup[1].started > lookup[1].prior[1].at
  /\ responses = << >> /\ lookup_result = Some(Ok(Some(lookup[1].prior[1].info)))

C25_WitnessNotFound ==
  /\ lookup_pc = "done" /\ lookup_result = Some(Ok(None))
  /\ lookup[1].key \notin DOMAIN lookup_cache

\* The responses received so far justify every request sent: each response but
\* the last was a 429 with fewer than 3 attempts made or a connection error on
\* the first attempt, and the lookup goes on exactly when the last one is.
Retried(i) ==
  \/ responses[i].kind = "status" /\ responses[i].code = 429 /\ i < 3
  \/ responses[i].kind = "error" /\ i < 2

C30_RetryRule ==
  /\ attempt = Len(responses) /\ attempt <= 3
  /\ \A i \in 1..(Len(responses) - 1) : Retried(i)
  /\ (lookup_pc = "sending" /\ responses # << >>) => Retried(Len(responses))
  /\ (lookup_pc = "done" /\ responses # << >>) =>
       (~Retried(Len(responses)) /\ lookup_result # None)

\* C30: a lookup sends at most 3 HTTP requests, retrying only on a 429 (while
\* fewer than 3 attempts were made) or on a connection error (only after the
\* first attempt), and, every request being answered, it returns.
C30_LookupTerminates ==
  /\ []C30_RetryRule
  /\ (lookup_pc = "sending") ~> (lookup_pc = "done")

C30_Witness ==
  /\ lookup_pc = "done" /\ Len(responses) = 3
  /\ responses[1].kind = "error" /\ responses[2].kind = "status"
  /\ responses[3].kind = "status" /\ responses[3].code = 429

\* C28: the number of stored sessions never exceeds max_sessions.
C28_SessionsWithinMax == Cardinality(DOMAIN sessions) <= MaxSessions

Suffix(s, n) == SubSeq(s, Len(s) - n + 1, Len(s))

\* C29: every session holds at most max_turns_per_session turns, and they are
\* the most recently appended turns of that session, in append order: an
\* append keeps the newest max_turns_per_session of the old turns and the new.
C29_TurnsAreMostRecent ==
  /\ \A id \in DOMAIN sessions :
       /\ Len(sessions[id].turns) <= MaxTurnsPerSession
       /\ sessions[id].turns = Suffix(appended[id], Len(sessions[id].turns))
  /\ last_append # None =>
       LET all == Append(last_append[1].before, last_append[1].turn) IN
         last_append[1].after =
           Suffix(all, IF Len(all) > MaxTurnsPerSession THEN MaxTurnsPerSession ELSE Len(all))

C29_Witness ==
  /\ last_append # None
  /\ Len(last_append[1].before) = MaxTurnsPerSession
  /\ last_append[1].before[1].content # last_append[1].before[2].content
  /\ last_append[1].session_id \in DOMAIN sessions
  /\ sessions[last_append[1].session_id].turns = last_append[1].after

Stages ==
  {"Built"}
    \cup (IF adapter.expected_chain_id = None \/ StepOk("chain_id_guard")
            THEN {"IdentityChecked"} ELSE {})
    \cup (IF StepOk("parse_from") /\ StepOk("parse_to") /\ StepOk("parse_amount")
            THEN {"Resolved"} ELSE {})
    \cup (IF StepOk("gas_cap_check") THEN {"GasEstimated"} ELSE {})
    \cup (IF StepOk("call") THEN {"Simulated"} ELSE {})
    \cup (IF outcome # None /\ outcome[1].kind = "TxResult" /\ ~HasStep("wallet_lookup")
            THEN {"SimulatedOnly"} ELSE {})
    \cup (IF wallet # None /\ wallet[1].chain_id # None THEN {"Signed"} ELSE {})
    \cup (IF StepOk("send_transaction") THEN {"Submitted"} ELSE {})
    \cup (IF StepOk("receipt")
            THEN (IF trace[Len(trace)].val[1] # None THEN {"Confirmed"} ELSE {"Unconfirmed"})
            ELSE {})

\* The stage each stage is entered from.
StageBefore(s) ==
  CASE s = "IdentityChecked" -> "Built"
    [] s = "Resolved" -> "IdentityChecked"
    [] s = "GasEstimated" -> "Resolved"
    [] s = "Simulated" -> "GasEstimated"
    [] s = "SimulatedOnly" -> "Simulated"
    [] s = "Signed" -> "Simulated"
    [] s = "Submitted" -> "Signed"
    [] s = "Confirmed" -> "Submitted"
    [] s = "Unconfirmed" -> "Submitted"
    [] OTHER -> "Built"

TerminalStages == {"SimulatedOnly", "Confirmed", "Unconfirmed"}

ErrorKinds ==
  {"ChainIdMismatch", "GasCapExceeded", "MissingLocalKey", "AddrParse", "Provider", "Other"}

\* A stage is passed only after the one before it, the call has an outcome
\* exactly when it is over, and the outcome is one terminal stage or an error.
StagesInOrder ==
  pc # "idle" =>
    /\ \A s \in Stages : StageBefore(s) \in Stages
    /\ ~("SimulatedOnly" \in Stages /\ "Signed" \in Stages)
    /\ (pc = "done") <=> (outcome # None)
    /\ outcome # None =>
         /\ trace[Len(trace)].res # "pending"
         /\ IF outcome[1].kind = "TxResult"
              THEN Cardinality(Stages \cap TerminalStages) = 1
              ELSE /\ outcome[1].kind \in ErrorKinds
                   /\ Stages \cap TerminalStages = {}
                   /\ req[1].simulate => "Signed" \notin Stages

\* Within a call no stage is left again, and once the outcome is produced
\* nothing changes until the caller takes it: no further node call is made.
StagesForward ==
  /\ (pc # "idle" /\ pc' # "idle") => Stages \subseteq Stages'
  /\ outcome # None =>
       \/ outcome' = outcome /\ trace' = trace /\ pc' = pc
       \/ pc' = "idle" /\ outcome' = None

AsAlone(l) ==
  /\ l.pc # "idle" => l.outcome = send_eth_alone(shared[1], l.req[1], Answers(l.trace))
  /\ l.qpc # "idle" => l.qresult = get_balance_alone(l.query[1].input, Answers(l.qtrace))

C21_WitnessReadAndTransfer ==
  /\ qpc = "done" /\ qresult[1].ok
  /\ \E l \in BagToSet(parked) : l.pc = "send_transaction"

====
